---- MODULE Spec2Model ----
(***************************************************************************)
(* Model of the NSE end-of-day pipeline: the merge of the legacy and the   *)
(* new-format price sources into bhav_complete_data (DataRetriever.py,     *)
(* BaseDataRetriever.py) and the corporate-action adjustment               *)
(* (DataPreProcessor.calculate_adjusted_prices).                           *)
(*                                                                         *)
(* Calendar dates are the integers 1..MaxDate (ex-dates reach MaxDate+1).  *)
(* DOUBLE values are exact rationals <<numerator, denominator>>; a table   *)
(* is the sequence of its rows in insertion order, so that a primary key   *)
(* is something the inserts have to maintain.                              *)
(***************************************************************************)
EXTENDS Integers, Sequences, FiniteSets, TLC

\* ------------------------------------------------------------------ bounds
MaxDate == 3
MaxActions == 2

Dates == 1..MaxDate

\* ex-dates of the actions: the second day, and the day after the last one
ExDates == {2, MaxDate + 1}

\* ------------------------------------------------------------ arithmetic
Abs(n) == IF n < 0 THEN -n ELSE n

RECURSIVE GCD(_, _)
GCD(a, b) == IF b = 0 THEN a ELSE GCD(b, a % b)

\* the quotient n / d of two numbers, d # 0, in lowest terms
Rat(n, d) ==
    LET g == GCD(Abs(n), Abs(d))
        s == IF d < 0 THEN -1 ELSE 1
    IN  <<(s * n) \div g, (s * d) \div g>>

One == <<1, 1>>

RMul(x, y) == Rat(x[1] * y[1], x[2] * y[2])

RPos(x) == x[1] > 0

\* --------------------------------------------------------------- helpers
RECURSIVE Flatten(_)
Flatten(ss) == IF ss = <<>> THEN <<>> ELSE Head(ss) \o Flatten(Tail(ss))

Range(s) == {s[i] : i \in 1..Len(s)}

Max(S) == CHOOSE m \in S : \A x \in S : x <= m

\* every arrangement of the rows of t
PermSeqs(t) ==
    LET n == Len(t)
    IN  {[i \in 1..n |-> t[p[i]]] :
            p \in {q \in [1..n -> 1..n] : \A i, j \in 1..n : q[i] = q[j] => i = j}}

\* SYMBOL values in their collation order ('' sorts first)
SymbolOrder == <<"", "A", "B">>

SymIdx(s) == CHOOSE i \in 1..Len(SymbolOrder) : SymbolOrder[i] = s

\* str.strip() on the strings of the model
Strip(s) == CASE s = " " -> "" [] s = " EQ" -> "EQ" [] s = "a " -> "a" [] OTHER -> s

Key(r) == <<r.SYMBOL, r.SERIES, r.DATE1>>

\* the value a function returns: None or a frame of rows
None == [none |-> TRUE, rows |-> <<>>]

Frame(rows) == [none |-> FALSE, rows |-> rows]

CAKey(a) == <<a.symbol, a.ex_date, a.action_type>>

\* ----------------------------------------------------------------- state
VARIABLES
    launches,             \* the programs started so far, in order (the last one is running)
    snapshot,             \* <<adjusted_csv, bhav_adjusted_prices>> when the last program started
    entry,                \* the program that runs: the module whose __main__ block started it
    CREATE_TABLES,        \* module global of DataPreProcessor.py: "undefined", "True", "False"
    tickerDict,           \* the allow-list: a set of symbols ({} is falsy)
    create_database,      \* parameter of main
    toDate,               \* parameter of main and of DataRetriever
    bhav_dir,             \* data/bhav/cm*bhav.csv: the legacy price files, in glob order
    sec_del_dir,          \* data/sec_del/MTO_*.DAT: the delivery files, in glob order
    bhav_sec_dir,         \* data/bhav_sec/sec_bhavdata_full_*.csv: the new-format files
    ca_csv,               \* data/CF-CA-equities.csv: the raw corporate actions
    bhav_complete_csv,    \* data/bhav_complete_data.csv (<<>> when never written)
    ca_processed_csv,     \* data/corporate_actions_processed.csv (<<>> when never written)
    from_date,            \* DataRetriever.from_date
    stats,                \* the counts retrieve_bhav_data prints last
    tables,               \* catalog of the database: names of the tables that exist
    bhav_old,             \* table of the legacy prices
    sec_del,              \* table of the delivery data
    eod_cash,             \* table bhav_old LEFT JOIN sec_del
    new_bhav,             \* table of the new-format prices
    bhav_complete_data,   \* canonical table
    corporate_actions,    \* table of parsed corporate actions
    bhav_adjusted_prices, \* table of adjusted rows
    adjusted_csv,         \* data/bhav_adjusted_prices.csv (<<>> when never written)
    pc,                   \* position in the running entry point
    error,                \* name of the exception that ended the run, "" when none
    prices_df,            \* rows read from bhav_complete_data, restricted to tickerDict
    ca_df,                \* actions read from corporate_actions, restricted to tickerDict
    df,                   \* what preprocess_ca returned to preprocess_data
    unique_symbols,       \* symbols still to process (loop of line 364)
    group,                \* rows of the current symbol with CUMULATIVE_FACTOR
    symbol_ca,            \* actions of the current symbol still to apply
    multiplier,           \* local of the action loop (Unbound before its first assignment)
    all_adjusted_data     \* list of finished groups

history == <<launches, snapshot>>
config == <<entry, CREATE_TABLES, tickerDict, create_database, toDate>>
disk == <<bhav_dir, sec_del_dir, bhav_sec_dir, ca_csv, bhav_complete_csv, ca_processed_csv>>
retriever == <<from_date, stats>>
staging == <<bhav_old, sec_del, eod_cash, new_bhav>>
canonical == <<tables, bhav_complete_data, corporate_actions>>
adjusted == <<bhav_adjusted_prices, adjusted_csv>>
control == <<pc, error>>
frames == <<prices_df, ca_df, df>>
locals == <<unique_symbols, group, symbol_ca, multiplier, all_adjusted_data>>

\* what the adjustment never touches
upstream == <<history, disk, retriever, staging>>

vars == <<history, config, disk, retriever, staging, canonical, adjusted, control, frames,
          locals>>

Unbound == <<0, 0>>

\* retrieve_bhav_data has not run
NoStats == [total |-> 0, missed |-> 0, skipped |-> 0, downloaded |-> 0]

\* ------------------------------------------------------------- database
KeyOf(r) == IF "symbol" \in DOMAIN r THEN CAKey(r) ELSE Key(r)

HasKey(t, k) == \E i \in 1..Len(t) : KeyOf(t[i]) = k

\* mutant: a table without a primary key, every row is appended
InsertOrIgnore_NoPK(t, rows) == t \o rows

\* mutant: INSERT OR REPLACE, the stored row of the key gives way to the new one
RECURSIVE InsertOrIgnore_Replace(_, _)
InsertOrIgnore_Replace(t, rows) ==
    IF rows = <<>> THEN t
    ELSE InsertOrIgnore_Replace(
            Append(SelectSeq(t, LAMBDA r : KeyOf(r) # KeyOf(Head(rows))), Head(rows)),
            Tail(rows))

\* INSERT OR IGNORE INTO t SELECT * FROM rows: a row whose primary key is
\* already stored (or was inserted earlier by the same statement) is skipped
RECURSIVE InsertOrIgnore(_, _)
InsertOrIgnore(t, rows) ==
    IF rows = <<>> THEN t
    ELSE InsertOrIgnore(IF HasKey(t, KeyOf(Head(rows))) THEN t ELSE Append(t, Head(rows)),
                        Tail(rows))

\* SELECT ... FROM t ORDER BY SYMBOL, DATE1
OrderBySymbolDate(t) ==
    Flatten([i \in 1..Len(SymbolOrder) |->
        Flatten([d \in 1..MaxDate |->
            SelectSeq(t, LAMBDA r : r.SYMBOL = SymbolOrder[i] /\ r.DATE1 = d)])])

\* the columns the adjustment reads from bhav_complete_data (DATA_SOURCE is not selected)
PriceCols(r) == [SYMBOL |-> r.SYMBOL, SERIES |-> r.SERIES, DATE1 |-> r.DATE1,
                 CLOSE_PRICE |-> r.CLOSE_PRICE, TTL_TRD_QNTY |-> r.TTL_TRD_QNTY,
                 DELIV_QTY |-> r.DELIV_QTY]

prices_df_of(t) == LET o == OrderBySymbolDate(t) IN [i \in 1..Len(o) |-> PriceCols(o[i])]

AdjustedTypes == {"dividend", "split", "bonus"}

IsSortedCA(s) ==
    \A i \in 1..(Len(s) - 1) :
        \/ SymIdx(s[i].symbol) < SymIdx(s[i + 1].symbol)
        \/ s[i].symbol = s[i + 1].symbol /\ s[i].ex_date <= s[i + 1].ex_date

\* SELECT ... FROM corporate_actions WHERE action_type IN (...) ORDER BY symbol, ex_date:
\* the results the query may return (rows equal in symbol and ex_date come in any order)
ca_df_of(t) ==
    {s \in PermSeqs(SelectSeq(t, LAMBDA a : a.action_type \in AdjustedTypes)) : IsSortedCA(s)}

\* prices_df['SYMBOL'].unique(): the symbols in order of first appearance
RECURSIVE Unique(_, _)
Unique(s, seen) ==
    IF s = <<>> THEN <<>>
    ELSE IF Head(s) \in seen THEN Unique(Tail(s), seen)
         ELSE <<Head(s)>> \o Unique(Tail(s), seen \cup {Head(s)})

\* ----------------------------------------------------------- adjustment
\* mutant: a trading day equal to ex_date counts as a previous day (<= for <)
prev_days_Inclusive(g, ex_date) == {g[i].DATE1 : i \in {j \in 1..Len(g) : g[j].DATE1 <= ex_date}}

\* group.index < ex_date
prev_days(g, ex_date) == {g[i].DATE1 : i \in {j \in 1..Len(g) : g[j].DATE1 < ex_date}}

\* group[prev_days_mask].index.max()
prev_trade_date(g, ex_date) == Max(prev_days(g, ex_date))

\* group.loc[prev_trade_date, 'CLOSE_PRICE']: the closes stored under that index label;
\* one row gives a scalar, several rows (a symbol traded in several series) give a Series
prev_close_price(g, ex_date) ==
    LET rows == SelectSeq(g, LAMBDA r : r.DATE1 = prev_trade_date(g, ex_date))
    IN  [i \in 1..Len(rows) |-> rows[i].CLOSE_PRICE]

\* `prev_close_price > 0 and dividend > 0` on a Series of several values raises ValueError
Ambiguous(g, a) ==
    /\ prev_days(g, a.ex_date) # {}
    /\ a.action_type = "dividend"
    /\ Len(prev_close_price(g, a.ex_date)) > 1

\* mutant: the dividend branch divides without looking at the reference close
Multiplier_NoCloseCheck(g, a) ==
    LET close == prev_close_price(g, a.ex_date)[1]
        denominator == a.bonus_ratio_from + a.bonus_ratio_to
    IN  CASE a.action_type = "dividend" ->
                IF a.dividend_amount > 0
                THEN Rat(close - a.dividend_amount, close) ELSE One
          [] a.action_type = "split" ->
                IF a.split_ratio_from > 0
                THEN Rat(a.split_ratio_to, a.split_ratio_from) ELSE One
          [] a.action_type = "bonus" ->
                IF denominator > 0 THEN Rat(a.bonus_ratio_to, denominator) ELSE One
          [] OTHER -> One

\* mutant: the bonus branch puts bonus_ratio_from over the denominator
Multiplier_BonusFrom(g, a) ==
    LET close == prev_close_price(g, a.ex_date)[1]
        denominator == a.bonus_ratio_from + a.bonus_ratio_to
    IN  CASE a.action_type = "dividend" ->
                IF close > 0 /\ a.dividend_amount > 0
                THEN Rat(close - a.dividend_amount, close) ELSE One
          [] a.action_type = "split" ->
                IF a.split_ratio_from > 0
                THEN Rat(a.split_ratio_to, a.split_ratio_from) ELSE One
          [] a.action_type = "bonus" ->
                IF denominator > 0 THEN Rat(a.bonus_ratio_from, denominator) ELSE One
          [] OTHER -> One

\* mutant: the dividend branch yields dividend / close, the yield, not its complement
Multiplier_DividendYield(g, a) ==
    LET close == prev_close_price(g, a.ex_date)[1]
        denominator == a.bonus_ratio_from + a.bonus_ratio_to
    IN  CASE a.action_type = "dividend" ->
                IF close > 0 /\ a.dividend_amount > 0
                THEN Rat(a.dividend_amount, close) ELSE One
          [] a.action_type = "split" ->
                IF a.split_ratio_from > 0
                THEN Rat(a.split_ratio_to, a.split_ratio_from) ELSE One
          [] a.action_type = "bonus" ->
                IF denominator > 0 THEN Rat(a.bonus_ratio_to, denominator) ELSE One
          [] OTHER -> One

\* mutant: the dividend branch reads the adjusted close of the reference day
\* (CLOSE_PRICE * CUMULATIVE_FACTOR), not the raw close
Multiplier_AdjustedClose(g, a) ==
    LET ref == SelectSeq(g, LAMBDA r : r.DATE1 = prev_trade_date(g, a.ex_date))[1]
        close == RMul(<<ref.CLOSE_PRICE, 1>>, ref.CUMULATIVE_FACTOR)
        denominator == a.bonus_ratio_from + a.bonus_ratio_to
    IN  CASE a.action_type = "dividend" ->
                IF RPos(close) /\ a.dividend_amount > 0
                THEN Rat(close[1] - a.dividend_amount * close[2], close[1]) ELSE One
          [] a.action_type = "split" ->
                IF a.split_ratio_from > 0
                THEN Rat(a.split_ratio_to, a.split_ratio_from) ELSE One
          [] a.action_type = "bonus" ->
                IF denominator > 0 THEN Rat(a.bonus_ratio_to, denominator) ELSE One
          [] OTHER -> One

\* lines 398-420: the multiplier of one action
Multiplier(g, a) ==
    LET close == prev_close_price(g, a.ex_date)[1]
        denominator == a.bonus_ratio_from + a.bonus_ratio_to
    IN  CASE a.action_type = "dividend" ->
                IF close > 0 /\ a.dividend_amount > 0
                THEN Rat(close - a.dividend_amount, close) ELSE One
          [] a.action_type = "split" ->
                IF a.split_ratio_from > 0
                THEN Rat(a.split_ratio_to, a.split_ratio_from) ELSE One
          [] a.action_type = "bonus" ->
                IF denominator > 0 THEN Rat(a.bonus_ratio_to, denominator) ELSE One
          [] OTHER -> One

\* mutant: the reference day itself is not rescaled (< for <=)
Scale_Strict(g, last, m) ==
    [i \in 1..Len(g) |->
        IF g[i].DATE1 < last
        THEN [g[i] EXCEPT !.CUMULATIVE_FACTOR = RMul(@, m)] ELSE g[i]]

\* mutant: only the reference day is rescaled, not the days before it (= for <=)
Scale_RefDayOnly(g, last, m) ==
    [i \in 1..Len(g) |->
        IF g[i].DATE1 = last
        THEN [g[i] EXCEPT !.CUMULATIVE_FACTOR = RMul(@, m)] ELSE g[i]]

\* mutant: the factor is overwritten, not compounded (= for *=)
Scale_Overwrite(g, last, m) ==
    [i \in 1..Len(g) |->
        IF g[i].DATE1 <= last
        THEN [g[i] EXCEPT !.CUMULATIVE_FACTOR = m] ELSE g[i]]

\* group.loc[group.index <= prev_trade_date, 'CUMULATIVE_FACTOR'] *= multiplier
Scale(g, last, m) ==
    [i \in 1..Len(g) |->
        IF g[i].DATE1 <= last
        THEN [g[i] EXCEPT !.CUMULATIVE_FACTOR = RMul(@, m)] ELSE g[i]]

\* mutant: a multiplier is applied whatever its sign
ApplyAction_AnySign(g, a) ==
    IF prev_days(g, a.ex_date) = {} THEN g
    ELSE LET m == Multiplier(g, a)
         IN  IF m # One THEN Scale(g, prev_trade_date(g, a.ex_date), m) ELSE g

\* one pass of the loop body of line 386 over the group
ApplyAction(g, a) ==
    IF prev_days(g, a.ex_date) = {} THEN g
    ELSE LET m == Multiplier(g, a)
         IN  IF RPos(m) /\ m # One THEN Scale(g, prev_trade_date(g, a.ex_date), m) ELSE g

\* final_df: ADJ_CLOSE_PRICE = CLOSE_PRICE * CUMULATIVE_FACTOR, target_column_order
\* (which drops CUMULATIVE_FACTOR)
FinalRow(r) == [SYMBOL |-> r.SYMBOL, SERIES |-> r.SERIES, DATE1 |-> r.DATE1,
                CLOSE_PRICE |-> r.CLOSE_PRICE,
                ADJ_CLOSE_PRICE |-> RMul(<<r.CLOSE_PRICE, 1>>, r.CUMULATIVE_FACTOR),
                TTL_TRD_QNTY |-> r.TTL_TRD_QNTY, DELIV_QTY |-> r.DELIV_QTY]

final_df_of(groups) == LET c == Flatten(groups) IN [i \in 1..Len(c) |-> FinalRow(c[i])]

Raise(e) == /\ pc' = "raised"
            /\ error' = e

\* ------------------------------------------------------- preprocess_ca
\* the PURPOSE texts of the model
Purposes == {"Dividend - Rs 5 Per Share", "Bonus 1:1",
             "Face Value Split (Sub-Division) - From Rs 10/- Per Share To Rs 5/- Per Share",
             "Annual General Meeting"}

\* str.upper() on the symbols of the model
Upper(s) == CASE s = "a" -> "A" [] s = "b" -> "B" [] OTHER -> s

\* the loop of line 183 on one row: the action type by the keyword the lowered
\* PURPOSE contains, the amount by r'rs?\s*(\d+(?:\.\d+)?)', the ratios by
\* r'(\d+):(\d+)'; a column the text gives nothing for keeps its default
ParsePurpose(symbol, ex_date, purpose) ==
    LET default == [symbol |-> symbol, ex_date |-> ex_date, action_type |-> "",
                    dividend_amount |-> 0, bonus_ratio_from |-> 0, bonus_ratio_to |-> 0,
                    split_ratio_from |-> 1, split_ratio_to |-> 1]
    IN  CASE purpose = "Dividend - Rs 5 Per Share" ->
                [default EXCEPT !.action_type = "dividend", !.dividend_amount = 5]
          [] purpose = "Bonus 1:1" ->
                [default EXCEPT !.action_type = "bonus", !.bonus_ratio_from = 1,
                                !.bonus_ratio_to = 1]
          [] purpose = "Face Value Split (Sub-Division) - From Rs 10/- Per Share To Rs 5/- Per Share" ->
                [default EXCEPT !.action_type = "split"]
          [] OTHER ->
                [default EXCEPT !.action_type = "annual general meeting"]

\* df of preprocess_ca after the parse
ParsedActions(raw) ==
    [i \in 1..Len(raw) |->
        ParsePurpose(Upper(Strip(raw[i].SYMBOL)), raw[i].EX_DATE, raw[i].PURPOSE)]

\* the modules that define class DataPreProcessor; AdjDataProcessor.py hands the
\* frame of preprocess_ca on to calculate_adjusted_prices
Preprocessors == {"DataPreProcessor", "AdjDataProcessor"}

\* preprocess_ca (startDate and endDate are given): an empty CSV returns at
\* once (None); otherwise the parsed actions are exported and, when
\* CREATE_TABLES is set, inserted with INSERT OR IGNORE. CREATE_TABLES is bound
\* only in the __main__ block of DataPreProcessor.py and of AdjDataProcessor.py.
\* Only AdjDataProcessor.preprocess_ca ends with `return df`
preprocess_ca ==
    /\ pc = "preprocess_ca"
    /\ IF ca_csv = <<>>
       THEN /\ pc' = "calculate_adjusted_prices"
            /\ df' = None
            /\ UNCHANGED <<ca_processed_csv, tables, corporate_actions, error>>
       ELSE LET parsed == ParsedActions(ca_csv)
            IN  /\ ca_processed_csv' = parsed
                /\ IF CREATE_TABLES = "undefined"
                   THEN /\ Raise("NameError")
                        /\ df' = None
                        /\ UNCHANGED <<tables, corporate_actions>>
                   ELSE /\ pc' = "calculate_adjusted_prices"
                        /\ error' = error
                        /\ df' = IF entry = "AdjDataProcessor" THEN Frame(parsed) ELSE None
                        /\ IF CREATE_TABLES = "True"
                           THEN /\ tables' = tables \cup {"corporate_actions"}
                                /\ corporate_actions' = InsertOrIgnore(corporate_actions, parsed)
                           ELSE UNCHANGED <<tables, corporate_actions>>
    /\ UNCHANGED <<history, config, bhav_dir, sec_del_dir, bhav_sec_dir, ca_csv,
                   bhav_complete_csv, retriever, staging, bhav_complete_data, adjusted,
                   prices_df, ca_df, locals>>

\* mutant: the price rows are not restricted to the allow-list
FilterPrices_All(all, allowed) == all

\* prices_df[prices_df['SYMBOL'].isin(self.tickerDict.keys())] when tickerDict is truthy
FilterPrices(all, allowed) ==
    IF allowed # {} THEN SelectSeq(all, LAMBDA r : r.SYMBOL \in allowed) ELSE all

\* ca_df[ca_df['symbol'].isin(self.tickerDict.keys())] when tickerDict is truthy
FilterCA(ca, allowed) ==
    IF allowed # {} THEN SelectSeq(ca, LAMBDA a : a.symbol \in allowed) ELSE ca

\* AdjDataProcessor.py, line 265: ca_df is read from corporate_actions when
\* CREATE_TABLES is set and is df.copy() otherwise; DataPreProcessor.py always
\* reads the table
FromTable == entry # "AdjDataProcessor" \/ CREATE_TABLES = "True"

\* calculate_adjusted_prices up to the symbol loop: create the tables, read
\* prices_df and ca_df, restrict both to tickerDict
calculate_adjusted_prices ==
    /\ pc = "calculate_adjusted_prices"
    /\ IF CREATE_TABLES = "undefined"
       THEN /\ Raise("NameError")
            /\ UNCHANGED <<tables, frames, locals>>
       ELSE LET created == IF CREATE_TABLES = "True"
                           THEN tables \cup {"bhav_complete_data", "bhav_adjusted_prices"}
                           ELSE tables
                read == IF FromTable THEN {"bhav_complete_data", "corporate_actions"}
                        ELSE {"bhav_complete_data"}
            IN  /\ tables' = created
                /\ IF ~(read \subseteq created)
                   THEN /\ Raise("CatalogException")
                        /\ UNCHANGED <<frames, locals>>
                   ELSE IF ~FromTable /\ df.none
                   THEN /\ Raise("AttributeError")
                        /\ UNCHANGED <<frames, locals>>
                   ELSE \E ca \in (IF FromTable THEN ca_df_of(corporate_actions)
                                   ELSE {df.rows}) :
                          LET prices == FilterPrices(prices_df_of(bhav_complete_data),
                                                     tickerDict)
                          IN  /\ prices_df' = prices
                              /\ ca_df' = FilterCA(ca, tickerDict)
                              /\ df' = df
                              /\ unique_symbols' =
                                    Unique([i \in 1..Len(prices) |-> prices[i].SYMBOL], {})
                              /\ group' = <<>>
                              /\ symbol_ca' = <<>>
                              /\ multiplier' = Unbound
                              /\ all_adjusted_data' = <<>>
                              /\ pc' = "for_symbol"
                              /\ error' = error
    /\ UNCHANGED <<upstream, config, bhav_complete_data, corporate_actions, adjusted>>

\* group = prices_df[prices_df['SYMBOL'] == symbol] ... group['CUMULATIVE_FACTOR'] = 1.0
NewGroup(prices, symbol) ==
    LET rows == SelectSeq(prices, LAMBDA r : r.SYMBOL = symbol)
    IN  [i \in 1..Len(rows) |->
            [SYMBOL |-> rows[i].SYMBOL, SERIES |-> rows[i].SERIES,
             DATE1 |-> rows[i].DATE1, CLOSE_PRICE |-> rows[i].CLOSE_PRICE,
             TTL_TRD_QNTY |-> rows[i].TTL_TRD_QNTY, DELIV_QTY |-> rows[i].DELIV_QTY,
             CUMULATIVE_FACTOR |-> One]]

\* mutant: the actions are not restricted to the symbol
SymbolCA_AllSymbols(ca, symbol) == ca

\* symbol_ca = ca_df[ca_df['symbol'] == symbol]
SymbolCA(ca, symbol) == SelectSeq(ca, LAMBDA a : a.symbol = symbol)

\* head of the loop of line 364: take the next symbol, build its group and
\* select its actions; a symbol without actions is appended at once
ForSymbol ==
    /\ pc = "for_symbol"
    /\ unique_symbols # <<>>
    /\ LET symbol == Head(unique_symbols)
           g == NewGroup(prices_df, symbol)
           ca == SymbolCA(ca_df, symbol)
       IN  /\ unique_symbols' = Tail(unique_symbols)
           /\ symbol_ca' = ca
           /\ IF ca = <<>>
              THEN /\ all_adjusted_data' = Append(all_adjusted_data, g)
                   /\ group' = <<>>
                   /\ pc' = "for_symbol"
              ELSE /\ group' = g
                   /\ all_adjusted_data' = all_adjusted_data
                   /\ pc' = "for_action"
    /\ UNCHANGED <<upstream, config, canonical, adjusted, error, frames, multiplier>>

\* body of the loop of line 386 for the next action of the symbol
ForAction ==
    /\ pc = "for_action"
    /\ symbol_ca # <<>>
    /\ LET action == Head(symbol_ca)
       IN  IF prev_days(group, action.ex_date) = {}
           THEN /\ symbol_ca' = Tail(symbol_ca)
                /\ UNCHANGED <<group, multiplier, control>>
           ELSE IF Ambiguous(group, action)
           THEN /\ Raise("ValueError")
                /\ multiplier' = One
                /\ UNCHANGED <<group, symbol_ca>>
           ELSE /\ multiplier' = Multiplier(group, action)
                /\ group' = ApplyAction(group, action)
                /\ symbol_ca' = Tail(symbol_ca)
                /\ UNCHANGED control
    /\ UNCHANGED <<upstream, config, canonical, adjusted, frames, unique_symbols, all_adjusted_data>>

\* line 426: the actions of the symbol are exhausted
AppendGroup ==
    /\ pc = "for_action"
    /\ symbol_ca = <<>>
    /\ all_adjusted_data' = Append(all_adjusted_data, group)
    /\ group' = <<>>
    /\ pc' = "for_symbol"
    /\ UNCHANGED <<upstream, config, canonical, adjusted, error, frames, unique_symbols, symbol_ca,
                   multiplier>>

\* lines 428-459: concatenate, derive ADJ_CLOSE_PRICE, export the CSV and
\* INSERT OR IGNORE into bhav_adjusted_prices
Consolidate ==
    /\ pc = "for_symbol"
    /\ unique_symbols = <<>>
    /\ IF all_adjusted_data # <<>>
       THEN LET final_df == final_df_of(all_adjusted_data)
            IN  /\ adjusted_csv' = final_df
                /\ bhav_adjusted_prices' =
                      IF CREATE_TABLES = "True"
                      THEN InsertOrIgnore(bhav_adjusted_prices, final_df)
                      ELSE bhav_adjusted_prices
       ELSE UNCHANGED adjusted
    /\ pc' = "compare_adj_close"
    /\ UNCHANGED <<upstream, config, canonical, error, frames, locals>>

\* compare_adj_close reads the adjusted output and Yahoo Finance and writes a
\* comparison file only; it changes none of the modelled state
compare_adj_close ==
    /\ pc = "compare_adj_close"
    /\ pc' = "done"
    /\ UNCHANGED <<upstream, config, canonical, adjusted, error, frames, locals>>

\* "2024-07-04": the last day the legacy files are read for
LegacyCutoff == 2

\* ------------------------------------------- DataRetriever: construction
\* the fromDate a caller passes: a day the legacy files cover, or a later one
FromDates == {1, LegacyCutoff + 1}

\* DataRetriever.__init__ with calculate_from_date: from_date moves to the day
\* after the latest stored DATE1; an empty range of dates raises ValueError.
\* (Every date of the model counts as a business day.)
DataRetriever_init ==
    /\ pc = "DataRetriever.__init__"
    /\ \E fromDate \in FromDates :
          LET stored == {bhav_complete_data[i].DATE1 : i \in 1..Len(bhav_complete_data)}
              start == IF "bhav_complete_data" \in tables /\ stored # {}
                       THEN Max(stored) + 1 ELSE fromDate
          IN  /\ from_date' = start
              /\ IF start > toDate
                 THEN Raise("ValueError")
                 ELSE pc' = "retrieve_bhav_data" /\ error' = error
    /\ UNCHANGED <<history, config, disk, stats, staging, canonical, adjusted, frames, locals>>

\* `self.from_date > "2024-07-04"`: the legacy source is not read
Skipped == from_date > LegacyCutoff

\* ----------------------------------------------- DataRetriever: download
\* close of an ordinary trading day: 100, 102, 101, 100, ...
NormalClose(d) == 100 + ((2 * (d - 1)) % 3)

\* the file the exchange serves for a key and a date; it serves no legacy
\* file for a date after the cutoff
Served(key, dt) == key = "bhav_sec" \/ dt <= LegacyCutoff

RemoteFile(key, dt) ==
    [date |-> dt,
     rows |-> CASE key = "bhav" ->
                     <<[SYMBOL |-> "A", SERIES |-> "EQ", TIMESTAMP |-> dt,
                        CLOSE |-> NormalClose(dt), TOTTRDQTY |-> 10]>>
                [] key = "sec_del" ->
                     <<[SYMBOL |-> "A", SERIES |-> "EQ", DELIV_QTY |-> 5]>>
                [] OTHER ->
                     <<[SYMBOL |-> "A", SERIES |-> " EQ", DATE1 |-> dt,
                        CLOSE_PRICE |-> NormalClose(dt), TTL_TRD_QNTY |-> 10,
                        DELIV_QTY |-> 5]>>]

\* os.path.exists(filepath)
Exists(dir, dt) == \E i \in 1..Len(dir) : dir[i].date = dt

\* the dates of self.dates whose file is not on disk yet
Missing(dir) == {dt \in from_date..toDate : ~Exists(dir, dt)}

\* which of the attempted downloads succeed: all the exchange serves, or all
\* of them but one
Outcomes(key, dir) ==
    LET served == {dt \in Missing(dir) : Served(key, dt)}
    IN  {served} \cup {served \ {dt} : dt \in served}

\* the directory after the loop of line 101 over self.dates
Downloaded(key, dir, ok) ==
    dir \o Flatten([dt \in 1..MaxDate |->
                       IF dt \in ok THEN <<RemoteFile(key, dt)>> ELSE <<>>])

\* DataRetriever.retrieve_bhav_data: the keys sec_del and bhav are skipped when
\* from_date is after the cutoff; the counts printed at the end are those of
\* the last key, bhav_sec
retrieve_bhav_data ==
    /\ pc = "retrieve_bhav_data"
    /\ \E ok_sec \in Outcomes("sec_del", sec_del_dir),
          ok_bhav \in Outcomes("bhav", bhav_dir),
          ok_new \in Outcomes("bhav_sec", bhav_sec_dir) :
          /\ IF Skipped
             THEN UNCHANGED <<sec_del_dir, bhav_dir>>
             ELSE /\ sec_del_dir' = Downloaded("sec_del", sec_del_dir, ok_sec)
                  /\ bhav_dir' = Downloaded("bhav", bhav_dir, ok_bhav)
          /\ bhav_sec_dir' = Downloaded("bhav_sec", bhav_sec_dir, ok_new)
          /\ stats' = [total |-> toDate - from_date + 1,
                       missed |-> Cardinality(Missing(bhav_sec_dir) \ ok_new),
                       skipped |-> toDate - from_date + 1 - Cardinality(Missing(bhav_sec_dir)),
                       downloaded |-> Cardinality(ok_new)]
    /\ pc' = "create_oldBhav"
    /\ UNCHANGED <<history, config, ca_csv, bhav_complete_csv, ca_processed_csv, from_date,
                   staging, canonical, adjusted, error, frames, locals>>

\* ============================================================== the merge
\* a column value the database stores as NULL (pandas NaN)
NULL == -1

\* mutant: only SYMBOL is tested
NotBlank_SymbolOnly(r) == r.SYMBOL # ""

\* (SYMBOL != '') & (SERIES != '')
NotBlank(r) == r.SYMBOL # "" /\ r.SERIES # ""

\* df_mapped of create_oldBhav: the columns of a cm*bhav.csv row under the names
\* of the table (DataRetriever.py adds DELIV_QTY = 0, BaseDataRetriever.py does not)
MapOld(r) == [SYMBOL |-> Strip(r.SYMBOL), SERIES |-> Strip(r.SERIES), DATE1 |-> r.TIMESTAMP,
              CLOSE_PRICE |-> r.CLOSE, TTL_TRD_QNTY |-> r.TOTTRDQTY]

WithDeliv(r, q) == [SYMBOL |-> r.SYMBOL, SERIES |-> r.SERIES, DATE1 |-> r.DATE1,
                    CLOSE_PRICE |-> r.CLOSE_PRICE, TTL_TRD_QNTY |-> r.TTL_TRD_QNTY,
                    DELIV_QTY |-> q]

WithSource(r, source) == [SYMBOL |-> r.SYMBOL, SERIES |-> r.SERIES, DATE1 |-> r.DATE1,
                          CLOSE_PRICE |-> r.CLOSE_PRICE, TTL_TRD_QNTY |-> r.TTL_TRD_QNTY,
                          DELIV_QTY |-> r.DELIV_QTY, DATA_SOURCE |-> source]

\* the rows of an MTO_*.DAT file: the date comes from the file name, an empty
\* SERIES becomes 'UNKNOWN'
MapSec(file) ==
    [i \in 1..Len(file.rows) |->
        [SYMBOL |-> Strip(file.rows[i].SYMBOL),
         SERIES |-> IF Strip(file.rows[i].SERIES) = "" THEN "UNKNOWN"
                    ELSE Strip(file.rows[i].SERIES),
         DATE1 |-> file.date,
         DELIV_QTY |-> file.rows[i].DELIV_QTY]]

\* the rows of a sec_bhavdata_full_*.csv file after the strip of SYMBOL and SERIES
MapNew(r) == [SYMBOL |-> Strip(r.SYMBOL), SERIES |-> Strip(r.SERIES), DATE1 |-> r.DATE1,
              CLOSE_PRICE |-> r.CLOSE_PRICE, TTL_TRD_QNTY |-> r.TTL_TRD_QNTY,
              DELIV_QTY |-> r.DELIV_QTY]

\* the column mappings applied to every row of a frame
MapOldRows(rows) == [i \in 1..Len(rows) |-> MapOld(rows[i])]

MapNewRows(rows) == [i \in 1..Len(rows) |-> MapNew(rows[i])]

WithDelivRows(rows, qty) == [i \in 1..Len(rows) |-> WithDeliv(rows[i], qty)]

WithSourceRows(rows, src) == [i \in 1..Len(rows) |-> WithSource(rows[i], src)]

\* pd.concat of the frames of the files of a directory
ConcatFiles(dir) == Flatten([i \in 1..Len(dir) |-> dir[i].rows])

\* DataRetriever.create_oldBhav, loop of line 190: every file is mapped, filtered
\* and inserted with INSERT OR IGNORE, one file after the other
RECURSIVE InsertOldFiles(_, _)
InsertOldFiles(t, dir) ==
    IF dir = <<>> THEN t
    ELSE LET df_mapped == SelectSeq(WithDelivRows(MapOldRows(Head(dir).rows), 0), NotBlank)
         IN  InsertOldFiles(InsertOrIgnore(t, df_mapped), Tail(dir))

\* FROM bhav_old o LEFT JOIN sec_del s ON the three key columns, with
\* COALESCE(s.DELIV_QTY, 0)
LeftJoinCoalesce(old, sec) ==
    Flatten([i \in 1..Len(old) |->
        LET matches == SelectSeq(sec, LAMBDA q : Key(q) = Key(old[i]))
        IN  IF matches = <<>> THEN <<WithDeliv(old[i], 0)>>
            ELSE [j \in 1..Len(matches) |-> WithDeliv(old[i], matches[j].DELIV_QTY)]])

\* FROM eod_cash e WHERE NOT EXISTS (SELECT 1 FROM new_bhav n WHERE same key)
NotInNew(eod, new) == SelectSeq(eod, LAMBDA e : ~HasKey(new, Key(e)))

\* SELECT * FROM bhav_complete_data ORDER BY DATE1, SYMBOL
OrderByDateSymbol(t) ==
    Flatten([d \in 1..MaxDate |->
        Flatten([i \in 1..Len(SymbolOrder) |->
            SelectSeq(t, LAMBDA r : r.SYMBOL = SymbolOrder[i] /\ r.DATE1 = d)])])

\* where a program goes when its last merge step returns
AfterMerge == IF entry = "main" THEN "preprocess_ca" ELSE "done"

\* DataRetriever.create_oldBhav
create_oldBhav ==
    /\ pc = "create_oldBhav"
    /\ IF Skipped
       THEN UNCHANGED <<tables, bhav_old>>
       ELSE /\ tables' = tables \cup {"bhav_old"}
            /\ bhav_old' = InsertOldFiles(bhav_old, bhav_dir)
    /\ pc' = "create_secDel"
    /\ UNCHANGED <<history, config, disk, retriever, sec_del, eod_cash, new_bhav,
                   bhav_complete_data, corporate_actions, adjusted, error, frames, locals>>

\* DataRetriever.create_secDel: pd.concat raises ValueError on an empty list
create_secDel ==
    /\ pc = "create_secDel"
    /\ IF Skipped
       THEN /\ pc' = "merge_oldBhav_secDel"
            /\ UNCHANGED <<tables, sec_del, error>>
       ELSE IF sec_del_dir = <<>>
       THEN /\ Raise("ValueError")
            /\ UNCHANGED <<tables, sec_del>>
       ELSE LET df_sec == Flatten([i \in 1..Len(sec_del_dir) |-> MapSec(sec_del_dir[i])])
            IN  /\ tables' = tables \cup {"sec_del"}
                /\ sec_del' = InsertOrIgnore(sec_del, df_sec)
                /\ pc' = "merge_oldBhav_secDel"
                /\ error' = error
    /\ UNCHANGED <<history, config, disk, retriever, bhav_old, eod_cash, new_bhav,
                   bhav_complete_data, corporate_actions, adjusted, frames, locals>>

\* DataRetriever.merge_oldBhav_secDel
merge_oldBhav_secDel ==
    /\ pc = "merge_oldBhav_secDel"
    /\ IF Skipped
       THEN UNCHANGED <<tables, eod_cash>>
       ELSE /\ tables' = tables \cup {"eod_cash"}
            /\ eod_cash' = InsertOrIgnore(eod_cash, LeftJoinCoalesce(bhav_old, sec_del))
    /\ pc' = "create_newBhav"
    /\ UNCHANGED <<history, config, disk, retriever, bhav_old, sec_del, new_bhav,
                   bhav_complete_data, corporate_actions, adjusted, error, frames, locals>>

\* DataRetriever.create_newBhav: pd.concat raises ValueError on an empty list
create_newBhav ==
    /\ pc = "create_newBhav"
    /\ IF bhav_sec_dir = <<>>
       THEN /\ Raise("ValueError")
            /\ UNCHANGED <<tables, new_bhav>>
       ELSE LET df_new == SelectSeq(MapNewRows(ConcatFiles(bhav_sec_dir)), NotBlank)
            IN  /\ tables' = tables \cup {"new_bhav"}
                /\ new_bhav' = InsertOrIgnore(new_bhav, df_new)
                /\ pc' = "create_finalDB"
                /\ error' = error
    /\ UNCHANGED <<history, config, disk, retriever, bhav_old, sec_del, eod_cash,
                   bhav_complete_data, corporate_actions, adjusted, frames, locals>>

\* the 16-column INSERT of DataRetriever.create_finalDB does not bind to a
\* bhav_complete_data that was created without DATA_SOURCE
Binds16 == "bhav_complete_data" \in tables => "bhav_complete_data.DATA_SOURCE" \in tables

\* mutant: the legacy rows are inserted first, the new-format rows after them
InsertFinal_LegacyFirst(t, new, eod, legacy) ==
    LET with_old == IF legacy
                    THEN InsertOrIgnore(t, WithSourceRows(eod, "eod_cash"))
                    ELSE t
    IN  InsertOrIgnore(with_old, WithSourceRows(new, "new_bhav"))

\* the two INSERT OR IGNORE statements of DataRetriever.create_finalDB: the rows
\* of new_bhav tagged 'new_bhav', then (when the legacy source is read) the rows
\* of eod_cash whose key new_bhav does not hold, tagged 'eod_cash'
InsertFinal(t, new, eod, legacy) ==
    LET with_new == InsertOrIgnore(t, WithSourceRows(new, "new_bhav"))
    IN  IF legacy
        THEN InsertOrIgnore(with_new, WithSourceRows(NotInNew(eod, new), "eod_cash"))
        ELSE with_new

\* DataRetriever.create_finalDB: the new-format rows first, then the legacy rows
\* whose key new_bhav does not hold, then the export
create_finalDB ==
    /\ pc = "create_finalDB"
    /\ IF ~Binds16
       THEN /\ Raise("BinderException")
            /\ UNCHANGED <<tables, bhav_complete_data, bhav_complete_csv>>
       ELSE LET with_old == InsertFinal(bhav_complete_data, new_bhav, eod_cash,
                                         from_date <= LegacyCutoff)
            IN  /\ tables' = tables \cup {"bhav_complete_data", "bhav_complete_data.DATA_SOURCE"}
                /\ bhav_complete_data' = with_old
                /\ bhav_complete_csv' = OrderByDateSymbol(with_old)
                /\ pc' = AfterMerge
                /\ error' = error
    /\ UNCHANGED <<history, config, bhav_dir, sec_del_dir, bhav_sec_dir, ca_csv,
                   ca_processed_csv, retriever, staging, corporate_actions, adjusted, frames,
                   locals>>

\* ------------------------------------------------------ BaseDataRetriever
\* DataFrame.drop_duplicates(): rows equal in every column collapse to the first
RECURSIVE drop_duplicates(_, _)
drop_duplicates(rows, kept) ==
    IF rows = <<>> THEN kept
    ELSE drop_duplicates(Tail(rows),
                         IF \E i \in 1..Len(kept) : kept[i] = Head(rows)
                         THEN kept ELSE Append(kept, Head(rows)))

\* drop_duplicates(subset=['SYMBOL', 'SERIES', 'DATE1'], keep='first')
RECURSIVE drop_duplicates_key(_, _)
drop_duplicates_key(rows, kept) ==
    IF rows = <<>> THEN kept
    ELSE drop_duplicates_key(Tail(rows),
                             IF HasKey(kept, Key(Head(rows)))
                             THEN kept ELSE Append(kept, Head(rows)))

\* BaseDataRetriever.create_oldBhav
Base_create_oldBhav(dir) ==
    IF dir = <<>> THEN None
    ELSE Frame(drop_duplicates(
            Flatten([i \in 1..Len(dir) |->
                SelectSeq(MapOldRows(dir[i].rows), NotBlank)]), <<>>))

\* BaseDataRetriever.create_secDel
Base_create_secDel(dir) ==
    IF dir = <<>> THEN None
    ELSE Frame(drop_duplicates(Flatten([i \in 1..Len(dir) |-> MapSec(dir[i])]), <<>>))

\* pd.merge(bhav_old_df, sec_del_df, on=[key], how='left'): a row without a
\* match gets NaN, a row with several matches comes once for each
LeftJoin(old, sec) ==
    Flatten([i \in 1..Len(old) |->
        LET matches == SelectSeq(sec, LAMBDA q : Key(q) = Key(old[i]))
        IN  IF matches = <<>> THEN <<WithDeliv(old[i], NULL)>>
            ELSE [j \in 1..Len(matches) |-> WithDeliv(old[i], matches[j].DELIV_QTY)]])

\* BaseDataRetriever.create_newBhav
Base_create_newBhav(dir) ==
    IF dir = <<>> THEN None
    ELSE LET df_new == SelectSeq(MapNewRows(drop_duplicates(ConcatFiles(dir), <<>>)),
                                 NotBlank)
         IN  IF df_new = <<>> THEN None ELSE Frame(df_new)

\* combined_df and final_df of BaseDataRetriever.create_finalDB
Base_final_df(new_bhav_df, merged_df) ==
    OrderByDateSymbol(drop_duplicates_key(new_bhav_df \o merged_df, <<>>))

\* BaseDataRetriever.create_finalDB, with the calls of merge_oldBhav_secDel,
\* create_oldBhav, create_secDel and create_newBhav it makes. merge_oldBhav_secDel
\* reads .shape of both frames before it tests them for None; two empty frames
\* have no key columns to drop duplicates on; the INSERT is a plain INSERT
Base_create_finalDB ==
    /\ pc = "Base.create_finalDB"
    /\ tables' = tables \cup {"bhav_complete_data"}
    /\ LET bhav_old_df == Base_create_oldBhav(bhav_dir)
           sec_del_df == Base_create_secDel(sec_del_dir)
           merged_df == LeftJoin(bhav_old_df.rows, sec_del_df.rows)
           new_bhav_df == Base_create_newBhav(bhav_sec_dir).rows
           final_df == Base_final_df(new_bhav_df, merged_df)
       IN  IF bhav_old_df.none \/ sec_del_df.none
           THEN /\ Raise("AttributeError")
                /\ UNCHANGED <<bhav_complete_data, bhav_complete_csv>>
           ELSE IF new_bhav_df \o merged_df = <<>>
           THEN /\ Raise("KeyError")
                /\ UNCHANGED <<bhav_complete_data, bhav_complete_csv>>
           ELSE IF "bhav_complete_data.DATA_SOURCE" \in tables
           THEN /\ Raise("BinderException")
                /\ UNCHANGED <<bhav_complete_data, bhav_complete_csv>>
           ELSE IF \E i \in 1..Len(final_df) : HasKey(bhav_complete_data, Key(final_df[i]))
           THEN /\ Raise("ConstraintException")
                /\ UNCHANGED <<bhav_complete_data, bhav_complete_csv>>
           ELSE /\ bhav_complete_data' = bhav_complete_data \o final_df
                /\ bhav_complete_csv' = final_df
                /\ pc' = "done"
                /\ error' = error
    /\ UNCHANGED <<history, config, bhav_dir, sec_del_dir, bhav_sec_dir, ca_csv,
                   ca_processed_csv, retriever, staging, corporate_actions, adjusted, frames,
                   locals>>

\* ----------------------------------------------------- DailyDataRetriever
\* the dates DailyDataRetriever.retrieve_bhav_data goes through: from the day
\* after the latest stored DATE1 (from "2024-01-01" when the table is missing
\* or empty) to yesterday
DailyStart ==
    LET stored == {bhav_complete_data[i].DATE1 : i \in 1..Len(bhav_complete_data)}
    IN  IF "bhav_complete_data" \in tables /\ stored # {} THEN Max(stored) + 1 ELSE 1

\* DailyDataRetriever.retrieve_bhav_data for the key bhav_sec: a date whose file
\* is on disk is skipped, the others are downloaded or missed
Daily_retrieve_bhav_data ==
    /\ pc = "Daily.retrieve_bhav_data"
    /\ LET dates == DailyStart..toDate
           missing == {dt \in dates : ~Exists(bhav_sec_dir, dt)}
       IN  \E ok \in {missing} \cup {missing \ {dt} : dt \in missing} :
              /\ bhav_sec_dir' = Downloaded("bhav_sec", bhav_sec_dir, ok)
              /\ from_date' = DailyStart
              /\ stats' = [total |-> Cardinality(dates),
                           missed |-> Cardinality(missing \ ok),
                           skipped |-> Cardinality(dates \ missing),
                           downloaded |-> Cardinality(ok)]
    /\ pc' = "Daily.create_newBhav"
    /\ UNCHANGED <<history, config, bhav_dir, sec_del_dir, ca_csv, bhav_complete_csv,
                   ca_processed_csv, staging, canonical, adjusted, error, frames, locals>>

\* `names`: for every date of the loop the file of that date, when it is on disk
Names(dir) ==
    Flatten([d \in 1..MaxDate |->
        LET files == SelectSeq(dir, LAMBDA f : f.date = d)
        IN  IF d >= from_date /\ d <= toDate /\ files # <<>> THEN <<Head(files)>> ELSE <<>>])

\* where (SYMBOL, SERIES, DATE1) not in (select ... from bhav_complete_data)
NotInTable(rows, t) == SelectSeq(rows, LAMBDA r : ~HasKey(t, Key(r)))

\* DailyDataRetriever.create_newBhav(con, names): the first query needs the
\* table; the named files are concatenated, stripped and filtered as in
\* BaseDataRetriever.create_newBhav; the rows whose key is not stored are
\* inserted with a plain INSERT of the 15 columns of the frame
Daily_create_newBhav ==
    /\ pc = "Daily.create_newBhav"
    /\ LET df_new == Base_create_newBhav(Names(bhav_sec_dir))
           fresh == NotInTable(df_new.rows, bhav_complete_data)
       IN  IF "bhav_complete_data" \notin tables
           THEN /\ Raise("CatalogException")
                /\ UNCHANGED bhav_complete_data
           ELSE IF df_new.none
           THEN /\ pc' = "done"
                /\ UNCHANGED <<bhav_complete_data, error>>
           ELSE IF "bhav_complete_data.DATA_SOURCE" \in tables
           THEN /\ Raise("BinderException")
                /\ UNCHANGED bhav_complete_data
           ELSE IF \E i, j \in 1..Len(fresh) : i # j /\ Key(fresh[i]) = Key(fresh[j])
           THEN /\ Raise("ConstraintException")
                /\ UNCHANGED bhav_complete_data
           ELSE /\ bhav_complete_data' = bhav_complete_data \o fresh
                /\ pc' = "done"
                /\ error' = error
    /\ UNCHANGED <<history, config, disk, retriever, staging, tables, corporate_actions,
                   adjusted, frames, locals>>

\* ---------------------------------------------------------------- inputs
\* close of a day with bad data: 0 on odd dates, negative on even dates
DegenerateClose(d) == IF d % 2 = 1 THEN 0 ELSE -10

PriceRow(symbol, series, d, close, source) ==
    [SYMBOL |-> symbol, SERIES |-> series, DATE1 |-> d, CLOSE_PRICE |-> close,
     TTL_TRD_QNTY |-> 10, DELIV_QTY |-> 5, DATA_SOURCE |-> source]

\* a canonical table: symbol A trades in series EQ on the days the shape marks
\* (with a normal or a degenerate close) and in series BE on day `be` (0: never);
\* symbol B trades in EQ on days 1 and 2
PriceTable(shape, be) ==
    Flatten([d \in 1..MaxDate |->
        (IF shape[d] = "absent" THEN <<>>
         ELSE <<PriceRow("A", "EQ", d,
                         IF shape[d] = "normal" THEN NormalClose(d) ELSE DegenerateClose(d),
                         "new_bhav")>>)
        \o (IF be = d THEN <<PriceRow("A", "BE", d, 50, "new_bhav")>> ELSE <<>>)
        \o (IF d <= 2 THEN <<PriceRow("B", "EQ", d, NormalClose(d), "new_bhav")>> ELSE <<>>)])

\* which days symbol A trades in EQ, at most one of them with a degenerate close
Shapes ==
    {f \in [Dates -> {"absent", "normal", "degenerate"}] :
        Cardinality({d \in Dates : f[d] = "degenerate"}) <= 1}

PriceTables == {PriceTable(shape, be) : shape \in Shapes, be \in 0..MaxDate}

CA(symbol, ex_date, type, dividend, bonus, split) ==
    [symbol |-> symbol, ex_date |-> ex_date, action_type |-> type,
     dividend_amount |-> dividend,
     bonus_ratio_from |-> bonus[1], bonus_ratio_to |-> bonus[2],
     split_ratio_from |-> split[1], split_ratio_to |-> split[2]]

\* parsed actions with the defaults preprocess_ca gives the columns an action
\* does not carry (dividend 0.0, bonus 0:0, split 1:1); among them a dividend
\* above every close, a split to 0 shares and a bonus with a negative ratio
ActionsOf(symbol) ==
    {CA(symbol, x, "dividend", v, <<0, 0>>, <<1, 1>>) : x \in ExDates, v \in {5, 200}}
    \cup {CA(symbol, x, "split", 0, <<0, 0>>, r) : x \in ExDates, r \in {<<1, 2>>, <<1, 0>>}}
    \cup {CA(symbol, x, "bonus", 0, b, <<1, 1>>) :
              x \in ExDates, b \in {<<1, 1>>, <<0, 0>>, <<1, 2>>, <<2, -1>>}}

SeqsUpTo(S, n) == UNION {[1..k -> S] : k \in 0..n}

SetToSeq(S) == CHOOSE t \in [1..Cardinality(S) -> S] : Range(t) = S

\* contents of corporate_actions: at most MaxActions rows, no two with the same
\* primary key (symbol, ex_date, action_type); the order of the rows is immaterial,
\* every reader sorts them
ActionTables(S) ==
    {SetToSeq(T) : T \in {R \in {Range(t) : t \in SeqsUpTo(S, MaxActions)} :
                            \A a, b \in R : CAKey(a) = CAKey(b) => a = b}}

\* the action tables of the adjustment run: actions of symbol A only
ActionTablesA == ActionTables(ActionsOf("A"))

\* ---------------------------------------------------------- adjustment run
\* DataPreProcessor.py run as a script on a database that holds the merged
\* prices and the parsed actions
InitAdjust ==
    /\ launches = <<"DataPreProcessor">>
    /\ snapshot = <<<<>>, <<>>>>
    /\ entry = "DataPreProcessor"
    /\ CREATE_TABLES = "True"
    /\ tickerDict = {}
    /\ create_database = FALSE
    /\ toDate = MaxDate
    /\ bhav_dir = <<>>
    /\ sec_del_dir = <<>>
    /\ bhav_sec_dir = <<>>
    /\ ca_csv = <<>>
    /\ bhav_complete_csv = <<>>
    /\ ca_processed_csv = <<>>
    /\ from_date = 1
    /\ stats = NoStats
    /\ tables = {"bhav_complete_data", "bhav_complete_data.DATA_SOURCE", "corporate_actions",
                 "bhav_adjusted_prices"}
    /\ bhav_old = <<>>
    /\ sec_del = <<>>
    /\ eod_cash = <<>>
    /\ new_bhav = <<>>
    /\ bhav_complete_data \in PriceTables
    /\ corporate_actions \in ActionTablesA
    /\ bhav_adjusted_prices = <<>>
    /\ adjusted_csv = <<>>
    /\ pc = "calculate_adjusted_prices"
    /\ error = ""
    /\ prices_df = <<>>
    /\ ca_df = <<>>
    /\ df = None
    /\ unique_symbols = <<>>
    /\ group = <<>>
    /\ symbol_ca = <<>>
    /\ multiplier = Unbound
    /\ all_adjusted_data = <<>>

NextAdjust ==
    \/ calculate_adjusted_prices
    \/ ForSymbol
    \/ ForAction
    \/ AppendGroup
    \/ Consolidate
    \/ compare_adj_close

SpecAdjust == InitAdjust /\ [][NextAdjust]_vars

\* ------------------------------------------------------------ the programs
MaxRuns == 2

\* the modules with a __main__ block that the model runs
Programs == {"main", "DataRetriever", "BaseDataRetriever", "DataPreProcessor",
             "AdjDataProcessor"}

\* mutant: main starts the preprocessor before the retriever
FirstStep_AdjustFirst(program, database) ==
    CASE program = "main" -> "preprocess_ca"
      [] program = "DataRetriever" -> "DataRetriever.__init__"
      [] program = "BaseDataRetriever" -> "Base.create_finalDB"
      [] program = "DailyDataRetriever" -> "Daily.retrieve_bhav_data"
      [] OTHER -> "preprocess_ca"

\* the first statement a program executes
FirstStep(program, database) ==
    CASE program = "main" -> IF database THEN "DataRetriever.__init__" ELSE "preprocess_ca"
      [] program = "DataRetriever" -> "DataRetriever.__init__"
      [] program = "BaseDataRetriever" -> "Base.create_finalDB"
      [] program = "DailyDataRetriever" -> "Daily.retrieve_bhav_data"
      [] OTHER -> "preprocess_ca"

\* a program is started on the data directory and the database the earlier
\* ones left. main imports DataPreProcessor, which leaves CREATE_TABLES unbound;
\* DataPreProcessor.py and AdjDataProcessor.py run as scripts bind it (lines 627, 559)
Launch ==
    /\ pc \in {"idle", "done", "raised"}
    /\ Len(launches) < MaxRuns
    /\ \E program \in Programs, database \in BOOLEAN, flag \in {"True", "False"},
          to \in {LegacyCutoff, MaxDate} :
          /\ program # "main" => database
          /\ program \notin Preprocessors => flag = "False"
          /\ program \in {"BaseDataRetriever"} \cup Preprocessors => to = MaxDate
          /\ launches' = Append(launches, program)
          /\ entry' = program
          /\ create_database' = database
          /\ CREATE_TABLES' = IF program \in Preprocessors THEN flag ELSE "undefined"
          /\ toDate' = to
          /\ pc' = FirstStep(program, database)
    /\ snapshot' = <<adjusted_csv, bhav_adjusted_prices>>
    /\ error' = ""
    /\ prices_df' = <<>>
    /\ ca_df' = <<>>
    /\ df' = None
    /\ unique_symbols' = <<>>
    /\ group' = <<>>
    /\ symbol_ca' = <<>>
    /\ multiplier' = Unbound
    /\ all_adjusted_data' = <<>>
    /\ UNCHANGED <<tickerDict, disk, retriever, staging, canonical, adjusted>>

\* raw corporate actions of the model
RawAction(symbol, ex_date, purpose) ==
    [SYMBOL |-> symbol, EX_DATE |-> ex_date, PURPOSE |-> purpose, SERIES |-> "EQ"]

RawActionFiles ==
    {<<>>,
     <<RawAction("A", 2, "Bonus 1:1")>>,
     <<RawAction("A", MaxDate + 1, "Dividend - Rs 5 Per Share"),
       RawAction("a ", MaxDate + 1, "Dividend - Rs 5 Per Share"),
       RawAction("A", 2, "Face Value Split (Sub-Division) - From Rs 10/- Per Share To Rs 5/- Per Share"),
       RawAction("A", 2, "Annual General Meeting")>>}

\* an empty database and a data directory that holds the corporate-action
\* file and nothing or one file of every kind
Init ==
    /\ launches = <<>>
    /\ snapshot = <<<<>>, <<>>>>
    /\ entry = ""
    /\ CREATE_TABLES = "undefined"
    /\ tickerDict \in {{}, {"A"}}
    /\ create_database = FALSE
    /\ toDate = MaxDate
    /\ \E on_disk \in BOOLEAN :
          /\ bhav_dir = IF on_disk THEN <<RemoteFile("bhav", 1)>> ELSE <<>>
          /\ sec_del_dir = IF on_disk THEN <<RemoteFile("sec_del", 1)>> ELSE <<>>
          /\ bhav_sec_dir = IF on_disk THEN <<RemoteFile("bhav_sec", 1)>> ELSE <<>>
    /\ ca_csv \in RawActionFiles
    /\ bhav_complete_csv = <<>>
    /\ ca_processed_csv = <<>>
    /\ from_date = 1
    /\ stats = NoStats
    /\ tables = {}
    /\ bhav_old = <<>>
    /\ sec_del = <<>>
    /\ eod_cash = <<>>
    /\ new_bhav = <<>>
    /\ bhav_complete_data = <<>>
    /\ corporate_actions = <<>>
    /\ bhav_adjusted_prices = <<>>
    /\ adjusted_csv = <<>>
    /\ pc = "idle"
    /\ error = ""
    /\ prices_df = <<>>
    /\ ca_df = <<>>
    /\ df = None
    /\ unique_symbols = <<>>
    /\ group = <<>>
    /\ symbol_ca = <<>>
    /\ multiplier = Unbound
    /\ all_adjusted_data = <<>>

Next ==
    \/ Launch
    \/ DataRetriever_init
    \/ retrieve_bhav_data
    \/ create_oldBhav
    \/ create_secDel
    \/ merge_oldBhav_secDel
    \/ create_newBhav
    \/ create_finalDB
    \/ Base_create_finalDB
    \/ preprocess_ca
    \/ calculate_adjusted_prices
    \/ ForSymbol
    \/ ForAction
    \/ AppendGroup
    \/ Consolidate
    \/ compare_adj_close

Spec == Init /\ [][Next]_vars

\* ------------------------------------------------------------ a merge run
MaxFiles == 2

OldRaw(symbol, series, d, close, qty) ==
    [SYMBOL |-> symbol, SERIES |-> series, TIMESTAMP |-> d, CLOSE |-> close,
     TOTTRDQTY |-> qty]

NewRaw(symbol, series, d, close, qty) ==
    [SYMBOL |-> symbol, SERIES |-> series, DATE1 |-> d, CLOSE_PRICE |-> close,
     TTL_TRD_QNTY |-> qty, DELIV_QTY |-> 5]

File(d, rows) == [date |-> d, rows |-> rows]

\* legacy files: two of day 1 that give A/EQ different closes, one of day 1
\* with a row without SYMBOL, one of day 2
LegacyFiles ==
    {File(1, <<OldRaw("A", "EQ", 1, 100, 10)>>),
     File(1, <<OldRaw("A", "EQ", 1, 101, 10)>>),
     File(1, <<OldRaw(" ", "EQ", 1, 100, 10), OldRaw("B", "EQ", 1, 100, 10)>>),
     File(2, <<OldRaw("A", "EQ", 2, 102, 10)>>)}

\* new-format files: two of day 1 that give A/EQ different closes and
\* quantities, one of day 1 with a row without SERIES, one of day 2
NewFiles ==
    {File(1, <<NewRaw("A", " EQ", 1, 100, 10)>>),
     File(1, <<NewRaw("A", " EQ", 1, 101, 20)>>),
     File(1, <<NewRaw("A", " ", 1, 100, 10), NewRaw("B", " EQ", 1, 100, 10)>>),
     File(2, <<NewRaw("A", " EQ", 2, 102, 10)>>)}

\* delivery files of day 1: one for A/EQ, one with an empty SERIES
SecFiles ==
    {File(1, <<[SYMBOL |-> "A", SERIES |-> "EQ", DELIV_QTY |-> 5]>>),
     File(1, <<[SYMBOL |-> "A", SERIES |-> "", DELIV_QTY |-> 7]>>)}

\* DataRetriever.py or BaseDataRetriever.py merges the files of the data
\* directory into an empty database
InitMerge ==
    /\ \E program \in {"DataRetriever", "BaseDataRetriever"} :
          /\ launches = <<program>>
          /\ entry = program
          /\ pc = IF program = "DataRetriever" THEN "create_oldBhav" ELSE "Base.create_finalDB"
          /\ from_date \in IF program = "DataRetriever" THEN FromDates ELSE {1}
    /\ snapshot = <<<<>>, <<>>>>
    /\ CREATE_TABLES = "undefined"
    /\ tickerDict = {}
    /\ create_database = TRUE
    /\ toDate = MaxDate
    /\ bhav_dir \in SeqsUpTo(LegacyFiles, MaxFiles)
    /\ sec_del_dir \in SeqsUpTo(SecFiles, 1)
    /\ bhav_sec_dir \in SeqsUpTo(NewFiles, MaxFiles)
    /\ ca_csv = <<>>
    /\ bhav_complete_csv = <<>>
    /\ ca_processed_csv = <<>>
    /\ stats = NoStats
    /\ tables = {}
    /\ bhav_old = <<>>
    /\ sec_del = <<>>
    /\ eod_cash = <<>>
    /\ new_bhav = <<>>
    /\ bhav_complete_data = <<>>
    /\ corporate_actions = <<>>
    /\ bhav_adjusted_prices = <<>>
    /\ adjusted_csv = <<>>
    /\ error = ""
    /\ prices_df = <<>>
    /\ ca_df = <<>>
    /\ df = None
    /\ unique_symbols = <<>>
    /\ group = <<>>
    /\ symbol_ca = <<>>
    /\ multiplier = Unbound
    /\ all_adjusted_data = <<>>

NextMerge ==
    \/ create_oldBhav
    \/ create_secDel
    \/ merge_oldBhav_secDel
    \/ create_newBhav
    \/ create_finalDB
    \/ Base_create_finalDB

SpecMerge == InitMerge /\ [][NextMerge]_vars

\* ------------------------------------------------- runs of the adjustment
\* the corporate-action files of the adjustment runs: those of the pipeline,
\* one with an action of symbol B before one of symbol A, and one with three
\* actions of A that are not in ex-date order and two of which share an ex-date
FeedFiles ==
    RawActionFiles
    \cup {<<RawAction("B", 2, "Bonus 1:1"), RawAction("A", 2, "Dividend - Rs 5 Per Share")>>,
          <<RawAction("A", MaxDate + 1, "Bonus 1:1"),
            RawAction("A", 2, "Dividend - Rs 5 Per Share"),
            RawAction("A", MaxDate + 1, "Dividend - Rs 5 Per Share")>>}

\* the canonical tables of the adjustment runs: A and B in one series, A in two
\* series on day 1, and no row of A at all
FeedPriceTables ==
    {PriceTable([d \in Dates |-> "normal"], 0),
     PriceTable([d \in Dates |-> "normal"], 1),
     PriceTable([d \in Dates |-> "absent"], 0)}

\* DataPreProcessor.py or AdjDataProcessor.py is run as a script, with either
\* value of CREATE_TABLES, on a database that holds the merged prices
InitFeed ==
    /\ \E program \in Preprocessors :
          /\ launches = <<program>>
          /\ entry = program
    /\ snapshot = <<<<>>, <<>>>>
    /\ CREATE_TABLES \in {"True", "False"}
    /\ tickerDict \in {{}, {"A"}, {"A", "B"}}
    /\ create_database = FALSE
    /\ toDate = MaxDate
    /\ bhav_dir = <<>>
    /\ sec_del_dir = <<>>
    /\ bhav_sec_dir = <<>>
    /\ ca_csv \in FeedFiles
    /\ bhav_complete_csv = <<>>
    /\ ca_processed_csv = <<>>
    /\ from_date = 1
    /\ stats = NoStats
    /\ tables = {"bhav_complete_data", "bhav_complete_data.DATA_SOURCE"}
    /\ bhav_old = <<>>
    /\ sec_del = <<>>
    /\ eod_cash = <<>>
    /\ new_bhav = <<>>
    /\ bhav_complete_data \in FeedPriceTables
    /\ corporate_actions = <<>>
    /\ bhav_adjusted_prices = <<>>
    /\ adjusted_csv = <<>>
    /\ pc = "preprocess_ca"
    /\ error = ""
    /\ prices_df = <<>>
    /\ ca_df = <<>>
    /\ df = None
    /\ unique_symbols = <<>>
    /\ group = <<>>
    /\ symbol_ca = <<>>
    /\ multiplier = Unbound
    /\ all_adjusted_data = <<>>

\* the corporate-action file is replaced and one of the two scripts is run
\* again on the database and the files the earlier run left
Rerun ==
    /\ pc \in {"done", "raised"}
    /\ Len(launches) < MaxRuns
    /\ \E program \in Preprocessors, flag \in {"True", "False"}, feed \in FeedFiles :
          /\ launches' = Append(launches, program)
          /\ entry' = program
          /\ CREATE_TABLES' = flag
          /\ ca_csv' = feed
    /\ snapshot' = <<adjusted_csv, bhav_adjusted_prices>>
    /\ pc' = "preprocess_ca"
    /\ error' = ""
    /\ prices_df' = <<>>
    /\ ca_df' = <<>>
    /\ df' = None
    /\ unique_symbols' = <<>>
    /\ group' = <<>>
    /\ symbol_ca' = <<>>
    /\ multiplier' = Unbound
    /\ all_adjusted_data' = <<>>
    /\ UNCHANGED <<tickerDict, create_database, toDate, bhav_dir, sec_del_dir, bhav_sec_dir,
                   bhav_complete_csv, ca_processed_csv, retriever, staging, canonical, adjusted>>

NextFeed ==
    \/ Rerun
    \/ preprocess_ca
    \/ calculate_adjusted_prices
    \/ ForSymbol
    \/ ForAction
    \/ AppendGroup
    \/ Consolidate
    \/ compare_adj_close

SpecFeed == InitFeed /\ [][NextFeed]_vars

\* ------------------------------------------------------ runs of the merge
\* the programs that write bhav_complete_data
Retrievers == {"DataRetriever", "BaseDataRetriever", "DailyDataRetriever"}

\* the first merge works on at most one legacy file and one new-format file
InitRuns ==
    /\ InitMerge
    /\ Len(bhav_dir) <= 1
    /\ Len(bhav_sec_dir) <= 1

\* after a run has ended, a new-format file may be put into data/bhav_sec/,
\* and one of the retrievers is run on the database and the files as they are
Relaunch ==
    /\ pc \in {"done", "raised"}
    /\ Len(launches) < MaxRuns
    /\ \E program \in Retrievers, arrived \in SeqsUpTo(NewFiles, 1) :
          /\ launches' = Append(launches, program)
          /\ entry' = program
          /\ pc' = FirstStep(program, TRUE)
          /\ bhav_sec_dir' = bhav_sec_dir \o arrived
    /\ error' = ""
    /\ UNCHANGED <<snapshot, CREATE_TABLES, tickerDict, create_database, toDate, bhav_dir,
                   sec_del_dir, ca_csv, bhav_complete_csv, ca_processed_csv, retriever, staging,
                   canonical, adjusted, frames, locals>>

NextRuns ==
    \/ Relaunch
    \/ DataRetriever_init
    \/ retrieve_bhav_data
    \/ create_oldBhav
    \/ create_secDel
    \/ merge_oldBhav_secDel
    \/ create_newBhav
    \/ create_finalDB
    \/ Base_create_finalDB
    \/ Daily_retrieve_bhav_data
    \/ Daily_create_newBhav

SpecRuns == InitRuns /\ [][NextRuns]_vars

\* ------------------------------------------- vocabulary of the properties
\* equality of two rationals, by cross-multiplication
REq(x, y) == x[1] * y[2] = y[1] * x[2]

\* x = k * y for rationals x, y and the rational k
RTimes(x, k, y) == x[1] * k[2] * y[2] = k[1] * y[1] * x[2]

\* the adjustable actions stored for a symbol
StoredActions(symbol) ==
    {corporate_actions[i] : i \in {j \in 1..Len(corporate_actions) :
        /\ corporate_actions[j].symbol = symbol
        /\ corporate_actions[j].action_type \in {"dividend", "split", "bonus"}}}

\* the canonical rows of a symbol
StoredRows(symbol) ==
    {bhav_complete_data[i] : i \in {j \in 1..Len(bhav_complete_data) :
        bhav_complete_data[j].SYMBOL = symbol}}

TradingDays(symbol) == {r.DATE1 : r \in StoredRows(symbol)}

HasRef(symbol, D) == \E d \in TradingDays(symbol) : d < D

\* the reference day: the last trading day strictly before D
RefDay(symbol, D) ==
    CHOOSE d \in TradingDays(symbol) :
        d < D /\ \A e \in TradingDays(symbol) : e < D => e <= d

RefCloses(symbol, D) ==
    {r.CLOSE_PRICE : r \in {q \in StoredRows(symbol) : q.DATE1 = RefDay(symbol, D)}}

RefClose(symbol, D) == CHOOSE c \in RefCloses(symbol, D) : TRUE

\* the multiplier section 4.2 of the specification gives an action
ClaimedMultiplier(a, close) ==
    IF a.action_type = "dividend"
    THEN (IF close > 0 /\ a.dividend_amount > 0
          THEN <<close - a.dividend_amount, close>> ELSE <<1, 1>>)
    ELSE IF a.action_type = "split"
    THEN (IF a.split_ratio_from > 0
          THEN <<a.split_ratio_to, a.split_ratio_from>> ELSE <<1, 1>>)
    ELSE IF a.action_type = "bonus"
    THEN (IF a.bonus_ratio_from + a.bonus_ratio_to > 0
          THEN <<a.bonus_ratio_to, a.bonus_ratio_from + a.bonus_ratio_to>> ELSE <<1, 1>>)
    ELSE <<1, 1>>

\* a multiplier that is not positive is not applied
Effective(m) == IF m[1] * m[2] > 0 THEN m ELSE <<1, 1>>

\* the symbol whose actions the loop of line 386 is working on
CurrentSymbol == group[1].SYMBOL

\* the actions of the current symbol the loop has already gone through
Processed == Len(SelectSeq(ca_df, LAMBDA a : a.symbol = CurrentSymbol)) - Len(symbol_ca)

LastAction == SelectSeq(ca_df, LAMBDA a : a.symbol = CurrentSymbol)[Processed]

InActionLoop == pc = "for_action" /\ group # <<>>

\* a step of the action loop that handles action-loop head `a`
ActionStep == InActionLoop /\ symbol_ca # <<>> /\ symbol_ca' = Tail(symbol_ca)

Emitted == pc \in {"compare_adj_close", "done"}

FinishedGroups == {all_adjusted_data[k] : k \in 1..Len(all_adjusted_data)}

RowsOf(g) == {g[i] : i \in 1..Len(g)}

CsvRows(symbol) ==
    {adjusted_csv[i] : i \in {j \in 1..Len(adjusted_csv) : adjusted_csv[j].SYMBOL = symbol}}

ModelSymbols == {"A", "B"}

\* ------------------------------------------------------------------- C3
\* C3 (no-action identity): every finished row of a symbol that has no stored
\* action carries CUMULATIVE_FACTOR = 1, and once the output is written every
\* canonical row of such a symbol is in it with ADJ_CLOSE_PRICE = CLOSE_PRICE.
C3_NoActionIdentity ==
    \A symbol \in ModelSymbols :
        StoredActions(symbol) = {} =>
            /\ \A g \in FinishedGroups : \A r \in RowsOf(g) :
                  r.SYMBOL = symbol => r.CUMULATIVE_FACTOR = <<1, 1>>
            /\ (Emitted /\ tickerDict = {}) =>
                  /\ \A r \in CsvRows(symbol) : r.ADJ_CLOSE_PRICE = <<r.CLOSE_PRICE, 1>>
                  /\ \A q \in StoredRows(symbol) : \E r \in CsvRows(symbol) : Key(r) = Key(q)

\* a run that emitted a symbol without actions next to a symbol that was rescaled
C3_Witness ==
    /\ pc = "done"
    /\ StoredActions("B") = {}
    /\ CsvRows("B") # {}
    /\ \E r \in CsvRows("A") : r.ADJ_CLOSE_PRICE # <<r.CLOSE_PRICE, 1>>

\* ------------------------------------------------------------------- C4
IsSplit(a, from, to) ==
    a.action_type = "split" /\ a.split_ratio_from = from /\ a.split_ratio_to = to

\* C4 (retroactivity): a step of the action loop that handles a split 1:2 with
\* ex-date D multiplies the factor of every row dated on or before the
\* reference day by exactly 2 and leaves every later row as it was (all rows,
\* when no trading day precedes D).
C4_Retroactivity ==
    [][(ActionStep /\ IsSplit(Head(symbol_ca), 1, 2)) =>
          LET D == Head(symbol_ca).ex_date
              sym == CurrentSymbol
          IN  /\ Len(group') = Len(group)
              /\ \A i \in 1..Len(group) :
                    /\ Key(group'[i]) = Key(group[i])
                    /\ group'[i].CLOSE_PRICE = group[i].CLOSE_PRICE
                    /\ IF HasRef(sym, D) /\ group[i].DATE1 <= RefDay(sym, D)
                       THEN RTimes(group'[i].CUMULATIVE_FACTOR, <<2, 1>>,
                                   group[i].CUMULATIVE_FACTOR)
                       ELSE group'[i].CUMULATIVE_FACTOR = group[i].CUMULATIVE_FACTOR]_vars

\* the single action of the symbol, a split 1:2, has been applied: a row on or
\* before the reference day carries 2, a later row carries 1
C4_Witness ==
    /\ InActionLoop
    /\ symbol_ca = <<>>
    /\ \E a \in StoredActions(CurrentSymbol) :
          /\ StoredActions(CurrentSymbol) = {a}
          /\ IsSplit(a, 1, 2)
          /\ HasRef(CurrentSymbol, a.ex_date)
          /\ \E r, q \in RowsOf(group) :
                /\ r.DATE1 <= RefDay(CurrentSymbol, a.ex_date)
                /\ r.CUMULATIVE_FACTOR = <<2, 1>>
                /\ q.DATE1 > RefDay(CurrentSymbol, a.ex_date)
                /\ q.CUMULATIVE_FACTOR = <<1, 1>>

\* ------------------------------------------------------------------- C5
\* C5 (compounding order): in the finished group of a symbol that has exactly
\* two stored actions with ex-dates D1 < D2, both with a reference day, a row
\* dated on or before both reference days carries the product of the two
\* multipliers and a row after the first reference day and on or before the
\* second carries the later action's multiplier only.
C5_CompoundingOrder ==
    \A g \in FinishedGroups :
        g # <<>> =>
            LET sym == g[1].SYMBOL
            IN  \A a1, a2 \in StoredActions(sym) :
                    ( /\ StoredActions(sym) = {a1, a2}
                      /\ a1.ex_date < a2.ex_date
                      /\ HasRef(sym, a1.ex_date)
                      /\ HasRef(sym, a2.ex_date) ) =>
                        LET r1 == RefDay(sym, a1.ex_date)
                            r2 == RefDay(sym, a2.ex_date)
                            m1 == Effective(ClaimedMultiplier(a1, RefClose(sym, a1.ex_date)))
                            m2 == Effective(ClaimedMultiplier(a2, RefClose(sym, a2.ex_date)))
                        IN  \A r \in RowsOf(g) :
                                /\ (r.DATE1 <= r1 /\ r.DATE1 <= r2) =>
                                      RTimes(r.CUMULATIVE_FACTOR, m1, m2)
                                /\ (r.DATE1 > r1 /\ r.DATE1 <= r2) =>
                                      REq(r.CUMULATIVE_FACTOR, m2)

\* a finished group with two actions at different ex-dates, both effective: an
\* early row carries a factor that is neither multiplier alone
C5_Witness ==
    \E g \in FinishedGroups :
        /\ g # <<>>
        /\ \E a1, a2 \in StoredActions(g[1].SYMBOL) :
              /\ StoredActions(g[1].SYMBOL) = {a1, a2}
              /\ a1.ex_date < a2.ex_date
              /\ HasRef(g[1].SYMBOL, a1.ex_date)
              /\ RefDay(g[1].SYMBOL, a1.ex_date) < RefDay(g[1].SYMBOL, a2.ex_date)
              /\ \E r, q \in RowsOf(g) :
                    /\ r.DATE1 <= RefDay(g[1].SYMBOL, a1.ex_date)
                    /\ q.DATE1 > RefDay(g[1].SYMBOL, a1.ex_date)
                    /\ q.DATE1 <= RefDay(g[1].SYMBOL, a2.ex_date)
                    /\ q.CUMULATIVE_FACTOR # <<1, 1>>
                    /\ r.CUMULATIVE_FACTOR # q.CUMULATIVE_FACTOR
                    /\ ~REq(r.CUMULATIVE_FACTOR,
                            ClaimedMultiplier(a1, RefClose(g[1].SYMBOL, a1.ex_date)))

\* ------------------------------------------------------------------- C7
\* the action at the head of the loop has a reference day with one close, and
\* that close is 0 or negative
DegenerateRef(a) ==
    /\ HasRef(CurrentSymbol, a.ex_date)
    /\ \E c \in RefCloses(CurrentSymbol, a.ex_date) :
          RefCloses(CurrentSymbol, a.ex_date) = {c} /\ c <= 0

\* the loop body neither raised nor changed a factor, and computed 1.0
NoFactorChange == multiplier' = One /\ group' = group /\ error' = "" /\ pc' = "for_action"

\* C7 (degenerate reference price, dividends): a step of the action loop that
\* handles a dividend whose reference-day close is 0 or negative computes the
\* multiplier 1.0, raises nothing and changes no row's factor.
C7_DegenerateDividend ==
    [][(InActionLoop /\ symbol_ca # <<>> /\ Head(symbol_ca).action_type = "dividend"
          /\ DegenerateRef(Head(symbol_ca))) => NoFactorChange]_vars

\* C7 as stated, for an action of any type: a step of the action loop that
\* handles a dividend, split or bonus whose reference-day close is 0 or negative
\* computes the multiplier 1.0, raises nothing and changes no row's factor.
C7_DegenerateAnyType ==
    [][(InActionLoop /\ symbol_ca # <<>>
          /\ Head(symbol_ca).action_type \in {"dividend", "split", "bonus"}
          /\ DegenerateRef(Head(symbol_ca))) => NoFactorChange]_vars

\* a dividend with a degenerate reference close has just been handled
C7_Witness ==
    /\ InActionLoop
    /\ Processed >= 1
    /\ LastAction.action_type = "dividend"
    /\ LastAction.dividend_amount > 0
    /\ DegenerateRef(LastAction)
    /\ multiplier = One

\* ------------------------------------------------------------------- C9
\* closes 100, 102, 101 in one series on three consecutive trading days, the
\* only rows of the symbol, and a single bonus 1:1 with ex-date after the last
BonusScenario(symbol) ==
    /\ \E d \in Dates :
          /\ TradingDays(symbol) = {d, d + 1, d + 2}
          /\ Cardinality(StoredRows(symbol)) = 3
          /\ \A r \in StoredRows(symbol) :
                r.CLOSE_PRICE = (CASE r.DATE1 = d -> 100 [] r.DATE1 = d + 1 -> 102
                                   [] OTHER -> 101)
          /\ \A a \in StoredActions(symbol) : a.ex_date > d + 2
    /\ \E a \in StoredActions(symbol) :
          /\ StoredActions(symbol) = {a}
          /\ a.action_type = "bonus"
          /\ a.bonus_ratio_from = 1
          /\ a.bonus_ratio_to = 1

\* C9 (bonus adjustment): after the loop has handled a bonus action that has a
\* reference day, the multiplier is to / (from + to) when from + to > 0 and 1
\* otherwise; and in the scenario of closes 100, 102, 101 with a single bonus
\* 1:1 after the last day every row's factor is 1/2 and the adjusted closes
\* are 50, 51 and 50.5.
C9_BonusAdjustment ==
    /\ ( /\ InActionLoop
         /\ Processed >= 1
         /\ LastAction.action_type = "bonus"
         /\ HasRef(CurrentSymbol, LastAction.ex_date) ) =>
            IF LastAction.bonus_ratio_from + LastAction.bonus_ratio_to > 0
            THEN RTimes(multiplier,
                        <<LastAction.bonus_ratio_to,
                          LastAction.bonus_ratio_from + LastAction.bonus_ratio_to>>, One)
            ELSE multiplier = One
    /\ \A symbol \in ModelSymbols :
          (BonusScenario(symbol) /\ Emitted /\ tickerDict = {}) =>
              /\ \A g \in FinishedGroups : \A r \in RowsOf(g) :
                    r.SYMBOL = symbol => r.CUMULATIVE_FACTOR = <<1, 2>>
              /\ {<<r.CLOSE_PRICE, r.ADJ_CLOSE_PRICE>> : r \in CsvRows(symbol)} =
                    {<<100, <<50, 1>>>>, <<102, <<51, 1>>>>, <<101, <<101, 2>>>>}

\* the scenario has been run to the end
C9_Witness ==
    /\ pc = "done"
    /\ BonusScenario("A")
    /\ \E r \in CsvRows("A") : r.ADJ_CLOSE_PRICE = <<101, 2>>

\* ------------------------------------------------------------------- C10
\* the symbol has a single stored action, a dividend of 5 whose reference day
\* has the one close 100
DividendScenario(symbol) ==
    \E a \in StoredActions(symbol) :
        /\ StoredActions(symbol) = {a}
        /\ a.action_type = "dividend"
        /\ a.dividend_amount = 5
        /\ HasRef(symbol, a.ex_date)
        /\ RefCloses(symbol, a.ex_date) = {100}
        /\ Cardinality({r \in StoredRows(symbol) :
                           r.DATE1 = RefDay(symbol, a.ex_date)}) = 1

\* C10 (dividend adjustment): after the loop has handled a dividend whose
\* reference day has one close c, the multiplier is (c - dividend) / c when
\* c > 0 and dividend > 0 and 1 otherwise; and a single dividend of 5 on a
\* reference close of 100 leaves every exported row on or before the reference
\* day with ADJ_CLOSE_PRICE = 0.95 * CLOSE_PRICE and every later row unscaled.
C10_DividendAdjustment ==
    /\ ( /\ InActionLoop
         /\ Processed >= 1
         /\ LastAction.action_type = "dividend"
         /\ HasRef(CurrentSymbol, LastAction.ex_date) ) =>
            LET c == RefClose(CurrentSymbol, LastAction.ex_date)
            IN  IF c > 0 /\ LastAction.dividend_amount > 0
                THEN RTimes(multiplier, <<c - LastAction.dividend_amount, c>>, One)
                ELSE multiplier = One
    /\ \A symbol \in ModelSymbols :
          (DividendScenario(symbol) /\ Emitted /\ tickerDict = {}) =>
              LET a == CHOOSE x \in StoredActions(symbol) : TRUE
                  ref == RefDay(symbol, a.ex_date)
              IN  /\ \A q \in StoredRows(symbol) : \E r \in CsvRows(symbol) : Key(r) = Key(q)
                  /\ \A r \in CsvRows(symbol) :
                        IF r.DATE1 <= ref
                        THEN RTimes(r.ADJ_CLOSE_PRICE, <<95, 100>>, <<r.CLOSE_PRICE, 1>>)
                        ELSE r.ADJ_CLOSE_PRICE = <<r.CLOSE_PRICE, 1>>

\* the dividend scenario has been run to the end, with a row on each side of
\* the reference day
C10_Witness ==
    /\ pc = "done"
    /\ DividendScenario("A")
    /\ \E r, q \in CsvRows("A") :
          /\ r.ADJ_CLOSE_PRICE = <<95, 1>>
          /\ q.DATE1 > r.DATE1
          /\ q.ADJ_CLOSE_PRICE = <<q.CLOSE_PRICE, 1>>

\* -------------------------------------------- vocabulary of the merge claims
\* the rows the new-format files supply, and the rows the legacy files supply
NewBatch == SelectSeq(MapNewRows(ConcatFiles(bhav_sec_dir)), NotBlank)

LegacyBatch == SelectSeq(MapOldRows(ConcatFiles(bhav_dir)), NotBlank)

LegacyRead == entry = "BaseDataRetriever" \/ from_date <= LegacyCutoff

\* keys both batches supply
OverlappingKeys ==
    {Key(NewBatch[i]) : i \in 1..Len(NewBatch)} \cap
    {Key(LegacyBatch[i]) : i \in 1..Len(LegacyBatch)}

\* overlapping keys on which a legacy row and a new-format row disagree on
\* the close or the total traded quantity
ConflictKeys ==
    {k \in OverlappingKeys :
        \E i \in 1..Len(NewBatch), j \in 1..Len(LegacyBatch) :
            /\ Key(NewBatch[i]) = k
            /\ Key(LegacyBatch[j]) = k
            /\ \/ NewBatch[i].CLOSE_PRICE # LegacyBatch[j].CLOSE_PRICE
               \/ NewBatch[i].TTL_TRD_QNTY # LegacyBatch[j].TTL_TRD_QNTY}

\* the canonical rows stored under a key
Canonical(k) ==
    {bhav_complete_data[i] : i \in {j \in 1..Len(bhav_complete_data) :
                                       Key(bhav_complete_data[j]) = k}}

\* a canonical row carries the values of a row of the new-format batch
FromNewBatch(r) ==
    \E i \in 1..Len(NewBatch) :
        /\ Key(NewBatch[i]) = Key(r)
        /\ NewBatch[i].CLOSE_PRICE = r.CLOSE_PRICE
        /\ NewBatch[i].TTL_TRD_QNTY = r.TTL_TRD_QNTY
        /\ NewBatch[i].DELIV_QTY = r.DELIV_QTY

MergeCompleted == pc = "done" /\ error = "" /\ Len(launches) = 1

\* the data-quality signals a merge has recorded, as the set of their keys:
\* neither create_finalDB has a statement that records, logs or prints one
DataQualitySignals == {}

\* ------------------------------------------------------------------- C1
\* C1 (merge key uniqueness): in every state of a merge run, whatever the
\* files repeat, no two rows of bhav_complete_data have the same
\* (SYMBOL, SERIES, DATE1).
C1_MergeKeyUniqueness ==
    \A i, j \in 1..Len(bhav_complete_data) :
        Key(bhav_complete_data[i]) = Key(bhav_complete_data[j]) => i = j

\* a completed merge of files that give one key different values, in one
\* source and across the two sources
C1_Witness ==
    /\ MergeCompleted
    /\ \E i, j \in 1..Len(NewBatch) :
          /\ Key(NewBatch[i]) = Key(NewBatch[j])
          /\ NewBatch[i].CLOSE_PRICE # NewBatch[j].CLOSE_PRICE
          /\ Key(NewBatch[i]) \in ConflictKeys
          /\ LegacyRead
          /\ Cardinality(Canonical(Key(NewBatch[i]))) = 1

\* ------------------------------------------------------------------- C2
\* C2 (precedence determinism): when a merge into an empty database has
\* completed, the one canonical row of every key that both the new-format and
\* the legacy files supply carries the values of a new-format row (and the
\* tag 'new_bhav' where the table has the column), for every order of the
\* files.
C2_PrecedenceDeterminism ==
    MergeCompleted =>
        \A k \in OverlappingKeys :
            /\ Canonical(k) # {}
            /\ \A r \in Canonical(k) :
                  /\ FromNewBatch(r)
                  /\ "DATA_SOURCE" \in DOMAIN r => r.DATA_SOURCE = "new_bhav"

\* a completed merge in which the legacy files were read and disagree with
\* the new-format files on a key whose canonical row is the new-format one
C2_Witness ==
    /\ MergeCompleted
    /\ LegacyRead
    /\ \E k \in ConflictKeys :
          /\ \A i \in 1..Len(LegacyBatch) :
                Key(LegacyBatch[i]) = k => \A r \in Canonical(k) :
                    r.CLOSE_PRICE # LegacyBatch[i].CLOSE_PRICE
          /\ \E r \in Canonical(k) : FromNewBatch(r)

\* ------------------------------------------------------------------- C6
\* C6 (idempotence of the full pipeline): when main has been run twice with
\* create_database set, the second run completes and leaves the exported
\* adjusted series and the rows of bhav_adjusted_prices as the first run left
\* them.
C6_Idempotence ==
    (launches = <<"main", "main">> /\ create_database /\ pc \in {"done", "raised"}) =>
        /\ pc = "done"
        /\ adjusted_csv = snapshot[1]
        /\ bhav_adjusted_prices = snapshot[2]

\* ------------------------------------------------------------------- C8
\* C8 (merge conflict signal): when a merge has completed, every key on which
\* a legacy row and a new-format row disagree has the new-format row as its
\* canonical row, tagged 'new_bhav', and exactly one data-quality signal.
C8_MergeConflictSignal ==
    MergeCompleted =>
        \A k \in ConflictKeys :
            /\ \A r \in Canonical(k) :
                  /\ FromNewBatch(r)
                  /\ "DATA_SOURCE" \in DOMAIN r
                  /\ r.DATA_SOURCE = "new_bhav"
            /\ Cardinality({q \in DataQualitySignals : q = k}) = 1

\* ------------------------------------------------------------------ C11
\* the CUMULATIVE_FACTOR values of the group in work and of the finished groups
Factors ==
    {group[i].CUMULATIVE_FACTOR : i \in 1..Len(group)}
    \cup UNION {{g[i].CUMULATIVE_FACTOR : i \in 1..Len(g)} : g \in FinishedGroups}

\* the multiplier the action loop has just computed is 0 or negative
Rejected == multiplier # Unbound /\ multiplier[1] * multiplier[2] <= 0

\* C11 (positive factor invariant): whatever the fields of the actions, every
\* cumulative factor is strictly greater than 0 at every step, and a step of the
\* action loop that computes a multiplier of 0 or less leaves the factors of
\* the group as they were
C11_PositiveFactor ==
    [][/\ \A f \in Factors' : f[1] > 0 /\ f[2] > 0
       /\ (ActionStep /\ Rejected') =>
             \A i \in 1..Len(group) : group'[i].CUMULATIVE_FACTOR = group[i].CUMULATIVE_FACTOR]_vars

\* a zero or negative multiplier was computed for a group whose factors an
\* earlier action had already changed
C11_Witness ==
    /\ InActionLoop
    /\ Rejected
    /\ Processed = 2
    /\ \E i \in 1..Len(group) : group[i].CUMULATIVE_FACTOR # One

\* ------------------------------------------------------------------ C12
\* the actions of a feed, every (symbol, ex_date, action_type) once
RECURSIVE Once(_, _)
Once(ca, kept) ==
    IF ca = <<>> THEN kept
    ELSE Once(Tail(ca), IF \E i \in 1..Len(kept) : CAKey(kept[i]) = CAKey(Head(ca))
                        THEN kept ELSE Append(kept, Head(ca)))

\* the group of a symbol after the actions of ca, one after the other
RECURSIVE AfterActions(_, _)
AfterActions(g, ca) ==
    IF ca = <<>> THEN g ELSE AfterActions(ApplyAction(g, Head(ca)), Tail(ca))

\* the adjusted rows of the price rows `prices` under the actions `ca`
AdjustedRows(prices, ca) ==
    LET symbols == Unique([i \in 1..Len(prices) |-> prices[i].SYMBOL], {})
    IN  final_df_of([k \in 1..Len(symbols) |->
            AfterActions(NewGroup(prices, symbols[k]), SymbolCA(ca, symbols[k]))])

\* the price rows and the actions of the feed file the run works on
RequestedPrices == FilterPrices(prices_df_of(bhav_complete_data), tickerDict)

FeedActions == FilterCA(ParsedActions(ca_csv), tickerDict)

\* the first run on the database has written its output
FirstRunEmitted == Len(launches) = 1 /\ Emitted /\ all_adjusted_data # <<>>

\* C12 (duplicate-action idempotence): the adjusted output of a run whose feed
\* holds an action several times is the output the feed with every action once
\* gives, whether the actions are read from the table or from the frame
C12_DuplicateAction ==
    FirstRunEmitted => adjusted_csv = AdjustedRows(RequestedPrices, Once(FeedActions, <<>>))

\* ------------------------------------------------------------------ C13
\* the run in progress has written its rows to the CSV file and to the table
StoredByRun == Emitted /\ CREATE_TABLES = "True" /\ all_adjusted_data # <<>>

\* C13 (replaced, not accumulated): once a run has stored its output, the row
\* bhav_adjusted_prices holds for a key is the row this run computed for it,
\* and the table holds no other row
C13_ReplacedNotAccumulated ==
    StoredByRun =>
        /\ \A r \in Range(adjusted_csv) : r \in Range(bhav_adjusted_prices)
        /\ \A r \in Range(bhav_adjusted_prices) : r \in Range(adjusted_csv)

\* ------------------------------------------------------------------ C14
\* a text that is empty or holds white space only
Blank(text) == text \in {"", " "}

\* the rows of the files of a directory whose SYMBOL or SERIES is blank
BlankRows(dir) ==
    {r \in Range(ConcatFiles(dir)) : Blank(r.SYMBOL) \/ Blank(r.SERIES)}

\* C14 (malformed-record filtering): no row of the canonical table, and no row
\* of the tables the merge reads, has an empty or blank symbol or series
C14_MalformedFiltered ==
    \A r \in Range(bhav_complete_data) \cup Range(new_bhav) \cup Range(eod_cash)
              \cup Range(bhav_old) :
        ~Blank(r.SYMBOL) /\ ~Blank(r.SERIES)

\* a merge that read the legacy source has completed on files that hold a blank
\* row in either format, and the canonical table holds the other rows of those files
C14_Witness ==
    /\ MergeCompleted
    /\ LegacyRead
    /\ BlankRows(bhav_dir) # {}
    /\ BlankRows(bhav_sec_dir) # {}
    /\ \E r \in Range(bhav_complete_data) : r.SYMBOL = "B"

\* ------------------------------------------------------------------ C15
\* the run has ended with an exception raised inside the action loop of a symbol
FailedInSymbol == pc = "raised" /\ group # <<>>

\* C15 (per-symbol failure isolation): a failure while one symbol is adjusted
\* does not end the run; the symbol is emitted with factor 1 and the symbols
\* after it are still processed
C15_FailureIsolation ==
    /\ ~FailedInSymbol
    /\ Emitted => \A s \in Range([i \in 1..Len(prices_df) |-> prices_df[i].SYMBOL]) :
                      \E r \in Range(adjusted_csv) : r.SYMBOL = s

\* ------------------------------------------------------------------ C16
\* the loop of line 386 is about to handle the action at the head of symbol_ca
AtAction == InActionLoop /\ symbol_ca # <<>>

\* an action that cannot be applied: no trading day before its ex-date, a split
\* or bonus with a ratio of 0 or less, a dividend that is not below the close
\* of the reference day
Malformed(g, a) ==
    \/ prev_days(g, a.ex_date) = {}
    \/ a.action_type = "split" /\ (a.split_ratio_from <= 0 \/ a.split_ratio_to <= 0)
    \/ a.action_type = "bonus" /\ (a.bonus_ratio_to <= 0 \/ a.bonus_ratio_from < 0)
    \/ a.action_type = "dividend" /\
           \A c \in Range(prev_close_price(g, a.ex_date)) : a.dividend_amount >= c

\* C16 (per-action degradation): the step that handles a malformed action does
\* not raise, leaves the group as it was and goes on to the next action
C16_ActionDegradation ==
    [][(AtAction /\ Malformed(group, Head(symbol_ca))) =>
          /\ pc' = "for_action"
          /\ group' = group
          /\ symbol_ca' = Tail(symbol_ca)]_vars

\* ------------------------------------------------------------------ C17
\* the symbols of the allow-list that have no row in the canonical table
MissingSeries == {s \in tickerDict : StoredRows(s) = {}}

\* the symbols the run has recorded a fatal error for: calculate_adjusted_prices
\* has no statement that records one, and it raises nothing for a requested
\* symbol that prices_df does not hold
MissingSeriesErrors == {}

\* the adjustment has gone through the symbols of the run
SymbolsDone == pc \in {"compare_adj_close", "done"}

\* C17 (missing series is reported): when the run has gone through its symbols,
\* every symbol of the allow-list without canonical rows has a recorded error,
\* and the symbols of the allow-list that have rows are emitted
C17_MissingSeriesReported ==
    SymbolsDone =>
        /\ \A s \in MissingSeries : s \in MissingSeriesErrors
        /\ \A s \in tickerDict \ MissingSeries : CsvRows(s) # {}

\* ------------------------------------------------------------------ C18
\* the actions the run reads, before the allow-list is applied
RunActions ==
    IF FromTable THEN SelectSeq(corporate_actions, LAMBDA a : a.action_type \in AdjustedTypes)
    ELSE ParsedActions(ca_csv)

\* the rows a run without allow-list produces for a symbol
UnrestrictedRows(s) ==
    {r \in Range(AdjustedRows(prices_df_of(bhav_complete_data), RunActions)) : r.SYMBOL = s}

CanonicalSymbols == {bhav_complete_data[i].SYMBOL : i \in 1..Len(bhav_complete_data)}

\* C18 (allow-list restriction): with a non-empty tickerDict the output holds
\* rows of allowed symbols only; the rows of every processed symbol are those
\* of the unrestricted run; without allow-list every canonical symbol is processed
C18_AllowList ==
    FirstRunEmitted =>
        /\ tickerDict # {} => \A r \in Range(adjusted_csv) : r.SYMBOL \in tickerDict
        /\ \A s \in (IF tickerDict # {} THEN tickerDict ELSE CanonicalSymbols) :
              CsvRows(s) = UnrestrictedRows(s)

\* a run restricted to A has emitted adjusted rows of A, on a table that holds
\* rows of B and with an action of B in the feed
C18_Witness ==
    /\ FirstRunEmitted
    /\ tickerDict = {"A"}
    /\ "B" \in CanonicalSymbols
    /\ \E a \in Range(RunActions) : a.symbol = "B"
    /\ \E r \in CsvRows("A") : r.ADJ_CLOSE_PRICE # <<r.CLOSE_PRICE, 1>>

\* ------------------------------------------------------------------ C19
\* no two rows of the table have the same (SYMBOL, SERIES, DATE1)
UniqueKeys(t) == \A i, j \in 1..Len(t) : Key(t[i]) = Key(t[j]) => i = j

\* the same retriever was run twice, the second time on the rows of the first
\* run, and the second run has ended
RerunEnded ==
    /\ Len(launches) = 2
    /\ launches[1] = launches[2]
    /\ launches[1] \in {"DataRetriever", "BaseDataRetriever"}
    /\ bhav_complete_data # <<>>
    /\ pc \in {"done", "raised"}

\* C19 (re-run without duplicates): a second run of the retriever over the
\* dates of the first one completes, and the canonical and the adjusted table
\* hold one row per (symbol, series, date)
C19_RerunNoDuplicates ==
    RerunEnded =>
        /\ pc = "done"
        /\ UniqueKeys(bhav_complete_data)
        /\ UniqueKeys(bhav_adjusted_prices)

\* ------------------------------------------------------------------ C20
\* the actions still to be applied to the current symbol come in ascending
\* ex_date order
Chronological(ca) == \A i, j \in 1..Len(ca) : i < j => ca[i].ex_date <= ca[j].ex_date

\* C20 (action ordering): the loop over the actions of a symbol takes them in
\* ascending ex_date order, in the database path and in the in-memory path,
\* whatever the order of the rows in the feed
C20_ActionOrdering == InActionLoop => Chronological(symbol_ca)

\* ------------------------------------------------------------------ C21
\* the legacy source is read, but there is no legacy price file or no delivery
\* file, while the new-format files hold rows
LegacyBatchAbsent ==
    /\ LegacyRead
    /\ bhav_dir = <<>> \/ sec_del_dir = <<>>
    /\ NewBatch # <<>>

\* C21 (batch failure isolation): when the legacy batch is absent the run
\* still ends without an exception and the canonical table holds the keys of
\* the new-format batch
C21_BatchFailureIsolation ==
    (Len(launches) = 1 /\ LegacyBatchAbsent /\ pc \in {"done", "raised"}) =>
        /\ pc = "done"
        /\ \A i \in 1..Len(NewBatch) : HasKey(bhav_complete_data, Key(NewBatch[i]))

\* ------------------------------------------------------------------ C22
\* the symbol has one row for every day it trades on
SingleSeries(s) == \A r, q \in StoredRows(s) : r.DATE1 = q.DATE1 => r = q

\* the adjusted rows computed from the canonical rows and the actions of the
\* symbol alone
OwnRows(s) ==
    Range(AdjustedRows(SelectSeq(prices_df_of(bhav_complete_data), LAMBDA r : r.SYMBOL = s),
                       SymbolCA(RunActions, s)))

\* the symbols the run is asked to adjust
RequestedSymbols ==
    IF tickerDict # {} THEN CanonicalSymbols \cap tickerDict ELSE CanonicalSymbols

\* the first run has gone into the loop over the symbols and has ended
SymbolLoopEnded == Len(launches) = 1 /\ (pc = "done" \/ FailedInSymbol)

\* C22 (symbol independence): when the run has ended, the adjusted rows written
\* for a symbol are those its own canonical rows and actions give, whatever the
\* rows and actions of the other symbols and the place of the symbol in the loop
C22_SymbolIndependence ==
    SymbolLoopEnded =>
        \A s \in RequestedSymbols : SingleSeries(s) => CsvRows(s) = OwnRows(s)

\* ------------------------------------------------------------------ C23
\* the positions of step 1 of main (the retriever and the merge) and of step 2
\* (preprocess_data)
MergeSteps == {"DataRetriever.__init__", "retrieve_bhav_data", "create_oldBhav",
               "create_secDel", "merge_oldBhav_secDel", "create_newBhav", "create_finalDB"}

AdjustSteps == {"preprocess_ca", "calculate_adjusted_prices", "for_symbol", "for_action",
                "compare_adj_close"}

FactorChanged(i) == group'[i].CUMULATIVE_FACTOR # group[i].CUMULATIVE_FACTOR

\* C24 (reference day selection): the step that handles an action with ex-date
\* D leaves every row dated after the last trading day before D as it was (so
\* a row dated D is never rescaled); when it rescales, it rescales every row up
\* to that day, and a dividend multiplier is computed from the close of that
\* day; without a trading day before D the step changes no factor, raises
\* nothing and goes on to the next action
C24_ReferenceDay ==
    [][AtAction =>
          LET a == Head(symbol_ca)
              D == a.ex_date
              sym == CurrentSymbol
          IN  /\ Len(group') = Len(group)
              /\ ~HasRef(sym, D) =>
                    /\ group' = group
                    /\ pc' = "for_action"
                    /\ error' = ""
                    /\ symbol_ca' = Tail(symbol_ca)
              /\ HasRef(sym, D) =>
                    /\ RefDay(sym, D) < D
                    /\ \A i \in 1..Len(group) :
                          group[i].DATE1 > RefDay(sym, D) => ~FactorChanged(i)
                    /\ (\E i \in 1..Len(group) : FactorChanged(i)) =>
                          \A i \in 1..Len(group) :
                              group[i].DATE1 <= RefDay(sym, D) =>
                                  RTimes(group'[i].CUMULATIVE_FACTOR, multiplier',
                                         group[i].CUMULATIVE_FACTOR)
                    /\ (pc' = "for_action" /\ a.action_type = "dividend") =>
                          REq(multiplier', ClaimedMultiplier(a, RefClose(sym, D)))]_vars

\* the action just handled has its ex-date on a trading day of the symbol: the
\* row of that day carries factor 1, the row of the reference day does not
C24_Witness ==
    /\ InActionLoop
    /\ Processed = 1
    /\ LastAction.ex_date \in TradingDays(CurrentSymbol)
    /\ HasRef(CurrentSymbol, LastAction.ex_date)
    /\ \E r, q \in RowsOf(group) :
          /\ r.DATE1 = LastAction.ex_date
          /\ r.CUMULATIVE_FACTOR = One
          /\ q.DATE1 = RefDay(CurrentSymbol, LastAction.ex_date)
          /\ q.CUMULATIVE_FACTOR # One

\* ------------------------------------------------------------------ C25
\* the product of the applied multipliers of a set of actions of a symbol, each
\* computed from the close of its own reference day
RECURSIVE ProductOf(_, _)
ProductOf(sym, actions) ==
    IF actions = {} THEN One
    ELSE LET a == CHOOSE x \in actions : TRUE
         IN  RMul(Effective(ClaimedMultiplier(a, RefClose(sym, a.ex_date))),
                  ProductOf(sym, actions \ {a}))

\* the closed form of the factor of trading day d of a symbol
ClosedForm(sym, d) == ProductOf(sym, {a \in StoredActions(sym) : a.ex_date > d})

\* C25 (closed form of the factor): in a finished group the factor of every
\* row equals the product of the positive multipliers of the stored actions of
\* the symbol whose ex-date is after the date of the row (1 when there is none)
C25_ClosedForm ==
    \A g \in FinishedGroups : \A r \in RowsOf(g) :
        REq(r.CUMULATIVE_FACTOR, ClosedForm(r.SYMBOL, r.DATE1))

\* a finished group of a symbol with two stored actions, one of them dated
\* after the last trading day: the last row carries the multiplier of that
\* action alone, an earlier row carries another factor
C25_Witness ==
    \E g \in FinishedGroups : \E r, q \in RowsOf(g) :
        /\ Cardinality(StoredActions(r.SYMBOL)) = 2
        /\ \E a \in StoredActions(r.SYMBOL) : a.ex_date > Max(TradingDays(r.SYMBOL))
        /\ r.DATE1 = Max(TradingDays(r.SYMBOL))
        /\ r.CUMULATIVE_FACTOR # One
        /\ q.DATE1 < r.DATE1
        /\ q.CUMULATIVE_FACTOR \notin {One, r.CUMULATIVE_FACTOR}

SuppliedByNew == {Key(new_bhav[i]) : i \in 1..Len(new_bhav)}

\* a canonical row carries the values of a row of the table new_bhav
FromNewTable(r) ==
    \E i \in 1..Len(new_bhav) :
        /\ Key(new_bhav[i]) = Key(r)
        /\ new_bhav[i].CLOSE_PRICE = r.CLOSE_PRICE
        /\ new_bhav[i].TTL_TRD_QNTY = r.TTL_TRD_QNTY
        /\ new_bhav[i].DELIV_QTY = r.DELIV_QTY

\* a second run, of DataRetriever, has completed
SecondMergeCompleted == Len(launches) = 2 /\ entry = "DataRetriever" /\ pc = "done"

\* C27 (precedence across runs): when a later run of the merge has completed,
\* the canonical row of every key the new-format source has supplied is a
\* new-format row, also when an earlier run stored the key from the legacy source
C27_PrecedenceAcrossRuns ==
    SecondMergeCompleted =>
        \A k \in SuppliedByNew : \A r \in Canonical(k) :
            /\ FromNewTable(r)
            /\ "DATA_SOURCE" \in DOMAIN r => r.DATA_SOURCE = "new_bhav"

\* ------------------------------------------------------------------ C28
\* the close of the last trading day before D in one series of a symbol
SeriesRefClose(sym, ser, D) ==
    LET rows == {r \in StoredRows(sym) : r.SERIES = ser /\ r.DATE1 < D}
        ref == CHOOSE r \in rows : \A q \in rows : q.DATE1 <= r.DATE1
    IN  ref.CLOSE_PRICE

\* the product of the applied multipliers of a set of actions, each computed
\* from the reference close of the series
RECURSIVE SeriesProduct(_, _, _)
SeriesProduct(sym, ser, actions) ==
    IF actions = {} THEN One
    ELSE LET a == CHOOSE x \in actions : TRUE
         IN  RMul(Effective(ClaimedMultiplier(a, SeriesRefClose(sym, ser, a.ex_date))),
                  SeriesProduct(sym, ser, actions \ {a}))

\* the run has raised while it adjusted a symbol that trades in several series
FailedOnMultiSeries == FailedInSymbol /\ ~SingleSeries(CurrentSymbol)

\* C28 (multi-series symbols): the adjustment of a symbol with rows in several
\* series does not raise, and the factor of every finished row is the product
\* of the multipliers computed from the reference close of the row's own series
C28_MultiSeries ==
    /\ ~FailedOnMultiSeries
    /\ \A g \in FinishedGroups : \A r \in RowsOf(g) :
          ~SingleSeries(r.SYMBOL) =>
          REq(r.CUMULATIVE_FACTOR,
              SeriesProduct(r.SYMBOL, r.SERIES,
                            {a \in StoredActions(r.SYMBOL) : a.ex_date > r.DATE1}))

\* ------------------------------------------------------------------ C29
\* every row of t is a row of u, at the same position
KeepsRows(t, u) == Len(t) <= Len(u) /\ \A i \in 1..Len(t) : u[i] = t[i]

\* the rows of u after those of t have keys t does not hold
AddsAbsentKeys(t, u) == \A i \in (Len(t) + 1)..Len(u) : ~HasKey(t, Key(u[i]))

\* C29 (stored canonical rows are stable): no step of a retriever modifies or
\* removes a row of bhav_complete_data; a step only adds rows whose key was
\* absent
C29_StoredRowsStable ==
    [][/\ KeepsRows(bhav_complete_data, bhav_complete_data')
       /\ AddsAbsentKeys(bhav_complete_data, bhav_complete_data')]_vars

\* a repeated merge has completed: its batch held another row for a stored
\* key, the stored row is still there, and a row of a date the database did
\* not reach when the run started has been added
C29_Witness ==
    /\ Len(launches) = 2
    /\ pc = "done"
    /\ \E i \in 1..Len(bhav_complete_data) :
          /\ Key(bhav_complete_data[i]) \in SuppliedByNew
          /\ ~FromNewTable(bhav_complete_data[i])
    /\ \E i \in 1..Len(bhav_complete_data) : bhav_complete_data[i].DATE1 >= from_date

\* ------------------------------------------------------------------ C30
\* the dates of the download loop that last ran
LoopDates == from_date..(from_date + stats.total - 1)

\* the dates of that loop that are still without a new-format file
MissedDates == {dt \in LoopDates : ~Exists(bhav_sec_dir, dt)}

\* the counts the loop of retrieve_bhav_data leaves for the new-format source
\* describe what it did to the directory: a date is skipped when its file was
\* there, downloaded when its file is there now, missed when it has no file
CountsAgree ==
    LET dates == from_date..toDate
    IN  /\ stats'.total = Cardinality(dates)
        /\ stats'.skipped = Cardinality({dt \in dates : Exists(bhav_sec_dir, dt)})
        /\ stats'.downloaded = Cardinality({dt \in dates : /\ ~Exists(bhav_sec_dir, dt)
                                                            /\ Exists(bhav_sec_dir', dt)})
        /\ stats'.missed = Cardinality({dt \in dates : ~Exists(bhav_sec_dir', dt)})
        /\ stats'.downloaded + stats'.skipped + stats'.missed = stats'.total

\* the step of __init__ is the one of a retriever asked for the dates from
\* fromDate on
AskedFrom(fromDate) ==
    LET stored == {bhav_complete_data[i].DATE1 : i \in 1..Len(bhav_complete_data)}
    IN  from_date' = IF "bhav_complete_data" \in tables /\ stored # {}
                     THEN Max(stored) + 1 ELSE fromDate

\* the retriever is started again and asked for a range of dates that holds
\* every date the last loop missed
AskedAgain ==
    /\ pc = "DataRetriever.__init__"
    /\ MissedDates # {}
    /\ \A dt \in MissedDates : dt <= toDate
    /\ AskedFrom(1)

\* the run goes through every date the last loop missed
RetriesMissed ==
    /\ pc' = "retrieve_bhav_data"
    /\ \A dt \in MissedDates : dt \in from_date'..toDate

\* C30 (download accounting): a completed download loop counts every date once
\* as downloaded, skipped or missed; a missed date has no file and is gone
\* through again by the next run that is asked for it
C30_DownloadAccounting ==
    [][/\ pc = "retrieve_bhav_data" => CountsAgree
       /\ AskedAgain => RetriesMissed]_vars

====
